---- MODULE Spec2Model ----
(***************************************************************************)
(* WhatWeather: the synthetic tide generator of KartverketTideAPI, the     *)
(* four formatters (Excel, HTML, YAML, plain text), the request spacing of *)
(* NominatimAPI (one caller, and two threads statement by statement), the  *)
(* tab-format parser and fetch of KartverketTideAPI, the results of the    *)
(* MET and Nominatim clients, and WeatherDataCollector.fetch_all, as state *)
(* machines.                                                               *)
(*                                                                         *)
(* Numbers: heights are fixed-point with SCALE units per centimetre before *)
(* rounding and tenths of a centimetre after round(x, 1).  Datetimes are   *)
(* records of their calendar fields, as datetime keeps them.               *)
(***************************************************************************)
EXTENDS Integers, Sequences, FiniteSets, TLC

VARIABLES
    clock,        \* the wall clock read by datetime.now(), in ticks
    tide_args,    \* the arguments the next generator call is made with
    tide_last,    \* the latest call of _generate_sample_tide_data: arguments and result
    tide_prev,    \* the call before it
    response,     \* the response handed to the formatters
    out,          \* what the latest format call produced
    files,        \* the filesystem: path -> the workbook saved there
    last_request_time,  \* NominatimAPI.last_request_time, in ticks
    sent,         \* the requests the NominatimAPI instance has sent, oldest first
    json_str,     \* the serialized body handed to the escaping of HTMLFormatter
    pre_text,     \* the text placed inside the <pre> element
    the_title,    \* the title handed to the formatters
    raw_text,     \* the body of the tide service's answer, as lines of tokens
    parsed,       \* what _parse_tab_format returned for raw_text
    fetch_call,   \* the latest call of an API client: client, arguments, outcome, result
    step,         \* the position of WeatherDataCollector.fetch_all
    log,          \* what fetch_all has attempted and printed, oldest first
    threads       \* the position of each thread inside NominatimAPI._rate_limit

vars == <<clock, tide_args, tide_last, tide_prev, response, out, files, last_request_time, sent, json_str, pre_text, the_title, raw_text, parsed, fetch_call, step, log, threads>>

\* The variables of each component, for the steps that leave them alone.
tide_vars == <<tide_args, tide_last, tide_prev>>
format_vars == <<the_title, response, out, files>>
nominatim_vars == <<last_request_time, sent>>
escape_vars == <<json_str, pre_text>>
parse_vars == <<raw_text, parsed>>
collector_vars == <<step, log>>

\* ------------------------------------------------------------------ bounds
\* Longest window to_time - from_time, in whole hours, of the generator runs.
MaxSpanHours == 26

NoCall == [kind |-> "none"]

\* No response drawn, no format call made yet.
NoResponse == [t |-> "none"]
NoOutput == [fmt |-> "none"]

\* An empty filesystem, no text.
NoFiles == [f \in {} |-> NoOutput]
NoText == <<>>

\* The components a run does not exercise stay as constructed.
IdleTide == tide_args = NoCall /\ tide_last = NoCall /\ tide_prev = NoCall
IdleFormat == the_title = NoResponse /\ response = NoResponse /\ out = NoOutput /\ files = NoFiles
IdleNominatim == last_request_time = 0 /\ sent = <<>>
IdleEscape == json_str = NoText /\ pre_text = NoText
IdleParse == raw_text = NoText /\ parsed = NoCall
IdleFetch == fetch_call = NoCall
IdleCollector == step = "idle" /\ log = <<>>
IdleThreads == threads = <<>>
IdleClients == IdleParse /\ IdleFetch /\ IdleCollector /\ IdleThreads

\* ------------------------------------------------------- Python values
\* A value is tagged with its Python type.  A dict keeps its items in
\* insertion order: a sequence of <<key, value>> pairs with distinct keys.
Str(s) == [t |-> "str", s |-> s]
Num(n) == [t |-> "num", n |-> n]
Dict(items) == [t |-> "dict", items |-> items]
List(items) == [t |-> "list", items |-> items]

IsDict(v) == v.t = "dict"
Keys(d) == {d.items[i][1] : i \in 1..Len(d.items)}
\* k in d
Has(d, k) == k \in Keys(d)
\* d[k]
Item(d, k) == d.items[CHOOSE i \in 1..Len(d.items) : d.items[i][1] = k][2]
\* An exception raised by an access, in place of the value; it propagates
\* through the accesses made on it.
Raised == [t |-> "raised"]
\* d.get(k, default); a receiver that is no dict has no method get
\* (AttributeError).
Get(d, k, default) ==
    IF ~IsDict(d) THEN Raised ELSE IF Has(d, k) THEN Item(d, k) ELSE default
\* d[k] with its KeyError or TypeError
GetItem(d, k) == IF IsDict(d) /\ Has(d, k) THEN Item(d, k) ELSE Raised
EmptyDict == Dict(<<>>)

\* ------------------------------------------------------------ datetime
DateTime(y, mo, d, h, mi, s, us) ==
    [year |-> y, month |-> mo, day |-> d, hour |-> h, minute |-> mi,
     second |-> s, microsecond |-> us]

IsLeap(y) == (y % 4 = 0) /\ ((y % 100 # 0) \/ (y % 400 = 0))

DaysInMonth(y, m) ==
    IF m = 2 THEN (IF IsLeap(y) THEN 29 ELSE 28)
    ELSE IF m \in {4, 6, 9, 11} THEN 30 ELSE 31

DaysBeforeYear(y) ==
    (y - 1) * 365 + ((y - 1) \div 4) - ((y - 1) \div 100) + ((y - 1) \div 400)

RECURSIVE DaysBeforeMonth(_, _)
DaysBeforeMonth(y, m) ==
    IF m = 1 THEN 0 ELSE DaysBeforeMonth(y, m - 1) + DaysInMonth(y, m - 1)

\* datetime.toordinal(): day 1 is 0001-01-01.
ToOrdinal(dt) == DaysBeforeYear(dt.year) + DaysBeforeMonth(dt.year, dt.month) + dt.day

SecondOfDay(dt) == dt.hour * 3600 + dt.minute * 60 + dt.second

\* a - b as a timedelta, normalised as Python does: 0 <= seconds < 86400,
\* 0 <= microseconds < 10^6, the sign carried by days.
TimeDelta(days, secs, us) == [days |-> days, seconds |-> secs, microseconds |-> us]

DateTimeSub(a, b) ==
    LET d0 == ToOrdinal(a) - ToOrdinal(b)
        s0 == SecondOfDay(a) - SecondOfDay(b)
        u0 == a.microsecond - b.microsecond
        u1 == IF u0 < 0 THEN u0 + 1000000 ELSE u0
        s1 == IF u0 < 0 THEN s0 - 1 ELSE s0
        s2 == IF s1 < 0 THEN s1 + 86400 ELSE s1
        d1 == IF s1 < 0 THEN d0 - 1 ELSE d0
    IN  TimeDelta(d1, s2, u1)

\* a <= b on datetimes: field by field, most significant first.
DateTimeLe(a, b) ==
    LET d == DateTimeSub(b, a) IN d.days >= 0

\* dt + timedelta(hours=1): the calendar carry of datetime.__add__.
AddInterval(dt) ==
    IF dt.hour < 23 THEN [dt EXCEPT !.hour = dt.hour + 1]
    ELSE IF dt.day < DaysInMonth(dt.year, dt.month)
         THEN [dt EXCEPT !.hour = 0, !.day = dt.day + 1]
    ELSE IF dt.month < 12
         THEN [dt EXCEPT !.hour = 0, !.day = 1, !.month = dt.month + 1]
    ELSE [dt EXCEPT !.hour = 0, !.day = 1, !.month = 1, !.year = dt.year + 1]

\* strftime('%Y-%m-%dT%H:%M:%S+00:00'): the fields down to the second, in
\* this order; the microsecond is not printed and the suffix is constant.
Strftime(dt) == <<dt.year, dt.month, dt.day, dt.hour, dt.minute, dt.second>>

\* ------------------------------------------------------------ math.sin
\* Fixed point: SCALE units per 1.0.
SCALE == 10000000

\* round(SCALE * sin(2*pi*j/621)) for j = 0..310 (index j + 1).
SinTable621 ==
  << 0, 101177, 202343, 303489, 404604, 505677, 606698, 707658,
     808544, 909349, 1010060, 1110667, 1211161, 1311531, 1411767, 1511858,
     1611794, 1711566, 1811162, 1910573, 2009788, 2108798, 2207591, 2306159,
     2404490, 2502576, 2600405, 2697968, 2795254, 2892255, 2988960, 3085358,
     3181441, 3277198, 3372620, 3467696, 3562417, 3656774, 3750756, 3844354,
     3937559, 4030361, 4122750, 4214717, 4306252, 4397347, 4487992, 4578177,
     4667893, 4757132, 4845884, 4934139, 5021890, 5109126, 5195840, 5282021,
     5367662, 5452753, 5537286, 5621252, 5704643, 5787450, 5869664, 5951277,
     6032282, 6112668, 6192429, 6271556, 6350041, 6427876, 6505053, 6581564,
     6657401, 6732557, 6807023, 6880793, 6953858, 7026212, 7097846, 7168753,
     7238927, 7308360, 7377044, 7444973, 7512140, 7578539, 7644161, 7709001,
     7773051, 7836306, 7898759, 7960403, 8021232, 8081240, 8140421, 8198768,
     8256276, 8312939, 8368751, 8423706, 8477799, 8531024, 8583376, 8634849,
     8685438, 8735138, 8783943, 8831850, 8878852, 8924946, 8970125, 9014387,
     9057726, 9100137, 9141617, 9182161, 9221765, 9260425, 9298137, 9334897,
     9370702, 9405547, 9439430, 9472346, 9504293, 9535266, 9565263, 9594282,
     9622318, 9649369, 9675432, 9700505, 9724584, 9747668, 9769755, 9790841,
     9810925, 9830004, 9848078, 9865143, 9881198, 9896241, 9910272, 9923288,
     9935288, 9946271, 9956236, 9965182, 9973108, 9980012, 9985895, 9990756,
     9994594, 9997409, 9999200, 9999968, 9999712, 9998432, 9996129, 9992803,
     9988454, 9983082, 9976688, 9969272, 9960837, 9951381, 9940907, 9929415,
     9916907, 9903383, 9888846, 9873297, 9856736, 9839167, 9820590, 9801008,
     9780423, 9758836, 9736251, 9712669, 9688092, 9662524, 9635966, 9608423,
     9579895, 9550387, 9519901, 9488441, 9456009, 9422609, 9388245, 9352919,
     9316637, 9279400, 9241213, 9202081, 9162006, 9120994, 9079048, 9036172,
     8992371, 8947650, 8902013, 8855464, 8808009, 8759653, 8710399, 8660254,
     8609222, 8557309, 8504520, 8450861, 8396336, 8340952, 8284714, 8227627,
     8169699, 8110934, 8051339, 7990920, 7929682, 7867633, 7804779, 7741125,
     7676679, 7611447, 7545436, 7478653, 7411104, 7342796, 7273736, 7203932,
     7133391, 7062119, 6990124, 6917414, 6843996, 6769877, 6695065, 6619567,
     6543392, 6466547, 6389040, 6310879, 6232072, 6152627, 6072553, 5991856,
     5910546, 5828631, 5746120, 5663020, 5579340, 5495090, 5410277, 5324909,
     5238997, 5152549, 5065573, 4978078, 4890074, 4801569, 4712573, 4623094,
     4533142, 4442726, 4351856, 4260539, 4168787, 4076607, 3984011, 3891006,
     3797604, 3703812, 3609642, 3515101, 3420201, 3324951, 3229361, 3133440,
     3037198, 2940645, 2843791, 2746646, 2649220, 2551523, 2453564, 2355355,
     2256904, 2158222, 2059319, 1960206, 1860891, 1761387, 1661701, 1561846,
     1461831, 1361666, 1261362, 1160929, 1060377, 959716, 858958, 758111,
     657186, 556195, 455146, 354051, 252919, 151762, 50589 >>

\* sin(2*pi*j/621) for every integer j >= 0, by sin(2*pi - x) = -sin(x).
Sin621(j) ==
    LET r == j % 621
    IN  IF r <= 310 THEN SinTable621[r + 1] ELSE 0 - SinTable621[621 - r + 1]

\* round(SCALE * sin(2*pi*j/12)) for j = 0..11 (index j + 1).
SinTable12 ==
  << 0, 5000000, 8660254, 10000000, 8660254, 5000000,
     0, -5000000, -8660254, -10000000, -8660254, -5000000 >>

Sin12(j) == SinTable12[(j % 12) + 1]

\* round(x, 1) of x = n / SCALE, in tenths: nearest, ties to even.
Round1(n) ==
    LET unit == SCALE \div 10
        q == n \div unit
        r == n % unit
    IN  IF 2 * r > unit \/ (2 * r = unit /\ q % 2 = 1) THEN q + 1 ELSE q

\* ------------------------------------------- _generate_sample_tide_data
tidal_period_hours_x100 == 1242     \* tidal_period_hours = 12.42
mean_high_water == 150
mean_low_water == 50
tidal_range == mean_high_water - mean_low_water

\* The mean without the halving.
mean_tide_sum == mean_high_water + mean_low_water

mean_tide == (mean_high_water + mean_low_water) \div 2

\* (current_time - from_time).total_seconds() / 3600
TotalSeconds(td) == td.days * 86400 + td.seconds
hours_elapsed(current_time, from_time) ==
    TotalSeconds(DateTimeSub(current_time, from_time)) \div 3600

\* math.sin(2 * math.pi * hours_elapsed / tidal_period_hours), times SCALE
\* (h / 12.42 of a turn is (h * 100 * 621 / 1242) / 621 of a turn)
tide_m2(h) == Sin621((h * 100 * 621) \div tidal_period_hours_x100)

\* 0.3 * math.sin(2 * math.pi * hours_elapsed / 12.0), times SCALE
tide_s2(h) == (3 * Sin12(h)) \div 10

\* The height scaled by the whole range instead of the amplitude.
tide_height_whole_range(h) == mean_tide * SCALE + tidal_range * (tide_m2(h) + tide_s2(h))

\* mean_tide + (tidal_range / 2) * (tide_m2 + tide_s2), times SCALE
tide_height(h) == mean_tide * SCALE + (tidal_range \div 2) * (tide_m2(h) + tide_s2(h))

\* The stamp strftime prints, as the string value of the entry's 'time'.
TimeStr(dt) == [t |-> "str", stamp |-> Strftime(dt)]

\* One appended entry; the height is in tenths of a centimetre.
SampleEntry(current_time, from_time) ==
    Dict(<< <<"time", TimeStr(current_time)>>,
            <<"data", Dict(<< <<"instant", Dict(<< <<"details", Dict(<<
                <<"sea_surface_height_above_chart_datum",
                  Num(Round1(tide_height(hours_elapsed(current_time, from_time))))>>
            >>)>> >>)>> >>)>> >>)

\* The loop with the exclusive test current_time < to_time.
RECURSIVE SampleLoopExclusive(_, _, _, _)
SampleLoopExclusive(current_time, from_time, to_time, timeseries) ==
    IF DateTimeLe(current_time, to_time) /\ current_time # to_time
    THEN SampleLoopExclusive(AddInterval(current_time), from_time, to_time,
                             Append(timeseries, SampleEntry(current_time, from_time)))
    ELSE timeseries

\* while current_time <= to_time: append; current_time += interval
RECURSIVE SampleLoop(_, _, _, _)
SampleLoop(current_time, from_time, to_time, timeseries) ==
    IF DateTimeLe(current_time, to_time)
    THEN SampleLoop(AddInterval(current_time), from_time, to_time,
                    Append(timeseries, SampleEntry(current_time, from_time)))
    ELSE timeseries

IsoFormat(tick) == [t |-> "str", iso |-> tick]

\* The returned mapping around a timeseries.  now1 and now2 are the two
\* readings of datetime.now().
SampleResult(lat, lon, location_info, days_ahead, timeseries, now1, now2) ==
    Dict(<<
      <<"type", Str("Feature")>>,
      <<"geometry", Dict(<< <<"type", Str("Point")>>,
                            <<"coordinates", List(<<Num(lon), Num(lat)>>)>> >>)>>,
      <<"properties", Dict(<<
          <<"meta", Dict(<<
              <<"updated_at", IsoFormat(now1)>>,
              <<"station_name", Str("Sample Data (API Unavailable)")>>,
              <<"station_code", Str("SAMPLE")>>,
              <<"data_source", Str("Generated sample tide predictions")>>,
              <<"units", Dict(<<
                  <<"sea_surface_height_above_chart_datum", Str("cm")>> >>)>> >>)>>,
          <<"timeseries", List(timeseries)>> >>)>>,
      <<"_metadata", Dict(<<
          <<"fetched_at", IsoFormat(now2)>>,
          <<"location", location_info>>,
          <<"coordinates", Dict(<< <<"lat", Num(lat)>>, <<"lon", Num(lon)>> >>)>>,
          <<"station", Str("sample")>>,
          <<"api", Str("Kartverket Tide API (Sample Data)")>>,
          <<"forecast_period_days", Num(days_ahead)>>,
          <<"note", Str("Sample data generated - API unavailable")>> >>)>>
    >>)

\* n intervals after dt.
RECURSIVE AddIntervals(_, _)
AddIntervals(dt, n) == IF n = 0 THEN dt ELSE AddIntervals(AddInterval(dt), n - 1)

\* The generator with the series started at the wall clock (now1 hours past
\* from_time) instead of at from_time.
generate_sample_tide_data_from_now(lat, lon, location_info, from_time, to_time, days_ahead, now1, now2) ==
    SampleResult(lat, lon, location_info, days_ahead,
                 SampleLoop(AddIntervals(from_time, now1), from_time, to_time, <<>>),
                 now1, now2)

\* _generate_sample_tide_data: current_time starts at from_time.
generate_sample_tide_data(lat, lon, location_info, from_time, to_time, days_ahead, now1, now2) ==
    SampleResult(lat, lon, location_info, days_ahead,
                 SampleLoop(from_time, from_time, to_time, <<>>),
                 now1, now2)

\* f"Coordinates: {lat}, {lon}"
LocationInfo(lat, lon) == [t |-> "str", coordinates |-> <<lat, lon>>]

\* ----------------------------------------------------- generator inputs
\* Start times: the spec's example, a leap-day eve, a new-year's eve and a
\* non-leap end of February, with and without a sub-second part.
FromTimes ==
    { DateTime(2024, 1, 1, 0, 0, 0, 0),
      DateTime(2024, 2, 28, 23, 30, 15, 500000),
      DateTime(2023, 12, 31, 22, 59, 59, 999999),
      DateTime(2023, 2, 28, 12, 0, 0, 1) }

\* End times: a grid of datetimes around the start times.
ToDates == { <<2023, 2, 28>>, <<2023, 3, 1>>, <<2023, 12, 31>>, <<2024, 1, 1>>,
             <<2024, 1, 2>>, <<2024, 2, 28>>, <<2024, 2, 29>>, <<2024, 3, 1>> }
ToClockParts == { <<0, 0, 0>>, <<30, 15, 499999>>, <<59, 59, 999999>> }
ToTimes ==
    { DateTime(d[1], d[2], d[3], h, c[1], c[2], c[3]) :
        d \in ToDates, h \in 0..23, c \in ToClockParts }

\* Latitude and longitude in hundredths of a degree (60.39, 5.32 is Bergen).
Positions == { <<6039, 532>>, <<5991, 1075>> }

SpanHours(from_time, to_time) == hours_elapsed(to_time, from_time)

TideArgs(f, u, p) ==
    [from_time |-> f, to_time |-> u, lat |-> p[1], lon |-> p[2], days_ahead |-> 7]

TideInputs ==
    UNION { { TideArgs(f, u, p) :
                u \in { x \in ToTimes : DateTimeLe(f, x) /\ SpanHours(f, x) <= MaxSpanHours },
                p \in Positions } :
            f \in FromTimes }

\* ------------------------------------------------ the generator's runs
\* One call: the arguments and the mapping returned.  The call reads the
\* wall clock twice; the clock may advance by d ticks in between.
TideCall(a, now1, now2) ==
    [kind |-> "call", args |-> a,
     result |-> generate_sample_tide_data(a.lat, a.lon, LocationInfo(a.lat, a.lon),
                                          a.from_time, a.to_time, a.days_ahead,
                                          now1, now2)]

InitTide ==
    /\ clock = 0
    /\ tide_args \in TideInputs
    /\ tide_last = NoCall
    /\ tide_prev = NoCall
    /\ IdleFormat /\ IdleNominatim /\ IdleEscape /\ IdleClients

\* The first call, with the arguments drawn at the start.
GenerateSample ==
    /\ tide_last = NoCall
    /\ \E d \in 0..1 :
        /\ tide_last' = TideCall(tide_args, clock, clock + d)
        /\ clock' = clock + d
    /\ UNCHANGED <<tide_args, tide_prev, format_vars, nominatim_vars, escape_vars, parse_vars, fetch_call, collector_vars, threads>>

\* The arguments of a second call: the same window from any position, or
\* another window (the same start, ending at once).
AgainInputs(a) ==
    { TideArgs(a.from_time, u, p) : u \in {a.to_time, a.from_time}, p \in Positions }

\* A second call on the same object, later on the wall clock.
GenerateAgain ==
    /\ tide_last # NoCall
    /\ tide_prev = NoCall
    /\ \E a \in AgainInputs(tide_last.args) :
        /\ tide_args' = a
        /\ tide_prev' = tide_last
        /\ tide_last' = TideCall(a, clock + 1, clock + 1)
        /\ clock' = clock + 1
    /\ UNCHANGED <<format_vars, nominatim_vars, escape_vars, parse_vars, fetch_call, collector_vars, threads>>

NextTide == GenerateSample \/ GenerateAgain

SpecTide == InitTide /\ [][NextTide]_vars

\* ---------------------------------------------------- reading a result
Timeseries(call) == Item(Item(call.result, "properties"), "timeseries").items
EntryStamp(e) == Item(e, "time").stamp
EntryHeight(e) ==
    Item(Item(Item(Item(e, "data"), "instant"), "details"),
         "sea_surface_height_above_chart_datum").n

\* The moment a stamp names, with the sub-second part us.
StampMoment(st, us) == DateTime(st[1], st[2], st[3], st[4], st[5], st[6], us)

\* A stamp is a date and time of the calendar.
ValidStamp(st) ==
    /\ st[2] \in 1..12
    /\ st[3] \in 1..DaysInMonth(st[1], st[2])
    /\ st[4] \in 0..23 /\ st[5] \in 0..59 /\ st[6] \in 0..59

\* Stamps compare as their strings do: field by field.
RECURSIVE StampLess(_, _, _)
StampLess(a, b, i) ==
    IF i > 6 THEN FALSE
    ELSE IF a[i] # b[i] THEN a[i] < b[i]
    ELSE StampLess(a, b, i + 1)

\* floor((to_time - from_time) in hours)
FloorHours(from_time, to_time) ==
    LET td == DateTimeSub(to_time, from_time)
    IN  (td.days * 24) + (td.seconds \div 3600)

\* C1: for from_time <= to_time the generator returns exactly
\* floor((to_time - from_time) in hours) + 1 entries; entry k (from 0) is
\* stamped from_time + k hours, so the stamps are strictly increasing, the
\* first is from_time and none is later than to_time.
C1_EntryCountAndTimes ==
    tide_last # NoCall =>
        LET a == tide_last.args
            ts == Timeseries(tide_last)
        IN  /\ Len(ts) = FloorHours(a.from_time, a.to_time) + 1
            /\ \A i \in 1..Len(ts) :
                LET m == StampMoment(EntryStamp(ts[i]), a.from_time.microsecond)
                    td == DateTimeSub(m, a.from_time)
                IN  /\ ValidStamp(EntryStamp(ts[i]))
                    /\ td.microseconds = 0
                    /\ TotalSeconds(td) = 3600 * (i - 1)
                    /\ DateTimeLe(m, a.to_time)
            /\ \A i \in 1..(Len(ts) - 1) :
                StampLess(EntryStamp(ts[i]), EntryStamp(ts[i + 1]), 1)
            /\ EntryStamp(ts[1]) = Strftime(a.from_time)

\* A run of C1's case: a window of more than a day that crosses the end of
\* a month.
C1_Witness ==
    /\ tide_last # NoCall
    /\ LET ts == Timeseries(tide_last)
       IN  /\ Len(ts) > 24
           /\ EntryStamp(ts[1])[2] # EntryStamp(ts[Len(ts)])[2]

\* C2: every height of every generated series lies within [0, 200] cm
\* (0..2000 tenths).
C2_HeightRange ==
    \A c \in {tide_last, tide_prev} \ {NoCall} :
        \A i \in 1..Len(Timeseries(c)) :
            EntryHeight(Timeseries(c)[i]) \in 0..2000

\* A run of C2's case: a series that passes a high and a low water.
C2_Witness ==
    /\ tide_last # NoCall
    /\ \E i, j \in 1..Len(Timeseries(tide_last)) :
        /\ EntryHeight(Timeseries(tide_last)[i]) > 1600
        /\ EntryHeight(Timeseries(tide_last)[j]) < 400

\* C3: two calls with identical from_time and to_time return identical
\* timeseries, whatever the wall clock, lat/lon and the earlier call.
C3_Deterministic ==
    (/\ tide_prev # NoCall
     /\ tide_prev.args.from_time = tide_last.args.from_time
     /\ tide_prev.args.to_time = tide_last.args.to_time)
    => Timeseries(tide_prev) = Timeseries(tide_last)

\* A run of C3's case: the same window asked twice, from another position
\* and at another time of the wall clock.
C3_Witness ==
    /\ tide_prev # NoCall
    /\ tide_prev.args.from_time = tide_last.args.from_time
    /\ tide_prev.args.to_time = tide_last.args.to_time
    /\ tide_prev.args.lat # tide_last.args.lat
    /\ Item(Item(tide_prev.result, "_metadata"), "fetched_at")
         # Item(Item(tide_last.result, "_metadata"), "fetched_at")
    /\ Len(Timeseries(tide_last)) > 12

\* round(100 + 50 * (sin(2*pi*h/12.42) + 0.3*sin(2*pi*h/12.0)), 1), in tenths.
ClaimedHeight(h) ==
    Round1(100 * SCALE + 50 * (Sin621(50 * h) + (3 * Sin12(h)) \div 10))

ExampleFrom == DateTime(2024, 1, 1, 0, 0, 0, 0)
ExampleTo == DateTime(2024, 1, 1, 2, 0, 0, 0)

\* C4: entry k's height is round(100 + 50*(sin(2*pi*h/12.42) +
\* 0.3*sin(2*pi*h/12.0)), 1) with h = k the whole hours since from_time; the
\* first entry of every series is exactly 100.0; the call from
\* 2024-01-01T00:00:00 to 2024-01-01T02:00:00 yields exactly the three
\* entries 00:00, 01:00 and 02:00.
C4_HeightFormula ==
    tide_last # NoCall =>
        LET a == tide_last.args
            ts == Timeseries(tide_last)
        IN  /\ \A i \in 1..Len(ts) : EntryHeight(ts[i]) = ClaimedHeight(i - 1)
            /\ EntryHeight(ts[1]) = 1000
            /\ (a.from_time = ExampleFrom /\ a.to_time = ExampleTo) =>
                   [i \in 1..Len(ts) |-> EntryStamp(ts[i])]
                     = << <<2024, 1, 1, 0, 0, 0>>, <<2024, 1, 1, 1, 0, 0>>,
                          <<2024, 1, 1, 2, 0, 0>> >>

\* A run of C4's case: the spec's example call.
C4_Witness ==
    /\ tide_last # NoCall
    /\ tide_last.args.from_time = ExampleFrom
    /\ tide_last.args.to_time = ExampleTo
    /\ Len(Timeseries(tide_last)) = 3
    /\ EntryHeight(Timeseries(tide_last)[2]) = 1317

\* =====================================================================
\* The formatters
\* =====================================================================
NoneV == [t |-> "none"]

\* bool(v): None, an empty dict, list or string and 0 are false.
Truthy(v) ==
    CASE v.t = "none" -> FALSE
      [] v.t \in {"dict", "list"} -> Len(v.items) > 0
      [] v.t = "num" -> v.n # 0
      [] OTHER -> IF "s" \in DOMAIN v THEN v.s # "" ELSE TRUE

\* The keys the responses use, in the order Python compares strings (by
\* code point: upper case, then '_', then lower case).
KeyAlphabet ==
    << "_metadata", "a", "api", "b", "c", "coordinates", "data", "details", "error",
       "fetched_at", "generated_at", "geometry", "instant", "lat", "meta", "next_1_hours",
       "precipitation_amount", "properties", "sea_surface_height_above_chart_datum",
       "summary", "symbol_code", "time", "timeseries", "type", "units", "updated_at" >>

Rank(k) == CHOOSE i \in 1..Len(KeyAlphabet) : KeyAlphabet[i] = k

\* sorted(S) for a set of keys
RECURSIVE Sorted(_)
Sorted(S) ==
    IF S = {} THEN <<>>
    ELSE LET m == CHOOSE x \in S : \A y \in S : Rank(x) <= Rank(y)
         IN  <<m>> \o Sorted(S \ {m})

\* The keys in descending order.
RECURSIVE Unsorted(_)
Unsorted(S) ==
    IF S = {} THEN <<>>
    ELSE LET m == CHOOSE x \in S : \A y \in S : Rank(x) >= Rank(y)
         IN  <<m>> \o Unsorted(S \ {m})

\* ------------------------------------------------------ ExcelFormatter
\* A worksheet: its title and the cells written, <<row, column>> -> value.
\* A workbook: its worksheets in order.
NoCells == [rc \in {} |-> NoneV]
Sheet(title, cells) == [title |-> title, cells |-> cells]

\* The values of seq written left to right from column 1 of row r.
RowCells(r, seq) == [rc \in {<<r, i>> : i \in 1..Len(seq)} |-> seq[rc[2]]]

\* The test without its last component: any mapping under 'properties'.
is_timeseries_data_any_properties(data) ==
    IsDict(data) /\ Has(data, "properties") /\ IsDict(Item(data, "properties"))

\* The test with the whole shape of a forecast required.
is_timeseries_data_full_shape(data) ==
    /\ IsDict(data) /\ Has(data, "properties") /\ IsDict(Item(data, "properties"))
    /\ Has(Item(data, "properties"), "timeseries")
    /\ Has(Item(data, "properties"), "meta")
    /\ IsDict(Item(Item(data, "properties"), "meta"))
    /\ Has(Item(Item(data, "properties"), "meta"), "units")
    /\ Has(data, "geometry") /\ IsDict(Item(data, "geometry"))
    /\ Has(Item(data, "geometry"), "coordinates")

\* ExcelFormatter._is_timeseries_data
is_timeseries_data(data) ==
    /\ IsDict(data)
    /\ Has(data, "properties")
    /\ IsDict(Item(data, "properties"))
    /\ Has(Item(data, "properties"), "timeseries")

\* entry['data']['instant']['details']: subscripts in place of .get
InstantDetailsSubscript(entry) ==
    GetItem(GetItem(GetItem(entry, "data"), "instant"), "details")

\* entry.get('data', {}).get('instant', {}).get('details', {})
InstantDetails(entry) ==
    Get(Get(Get(entry, "data", EmptyDict), "instant", EmptyDict), "details", EmptyDict)

\* The keys of the first entry only.
extract_all_detail_keys_first_entry(timeseries) ==
    IF Len(timeseries) = 0 THEN {} ELSE Keys(InstantDetails(timeseries[1]))

\* ExcelFormatter._extract_all_detail_keys
extract_all_detail_keys(timeseries) ==
    UNION { Keys(InstantDetails(timeseries[i])) : i \in 1..Len(timeseries) }

\* sample_entry.get('data', {}).get('next_1_hours', {})
Next1Hours(entry) == Get(Get(entry, "data", EmptyDict), "next_1_hours", EmptyDict)

\* The headers with the keys left in set order and the precipitation column
\* ahead of the symbol column.
TimeseriesHeadersUnordered(timeseries) ==
    LET sample_entry == timeseries[1]
        details_keys == extract_all_detail_keys(timeseries)
    IN  <<"Time">>
        \o Unsorted(details_keys)
        \o (IF Get(Get(Next1Hours(sample_entry), "details", EmptyDict),
                   "precipitation_amount", NoneV) # NoneV
            THEN <<"Next 1hr Precip (mm)">> ELSE <<>>)
        \o (IF Truthy(Get(Next1Hours(sample_entry), "summary", NoneV))
            THEN <<"Next 1hr Symbol">> ELSE <<>>)

\* headers: 'Time', the sorted detail keys, then the summary fields the
\* first entry has.
TimeseriesHeaders(timeseries) ==
    LET sample_entry == timeseries[1]
        details_keys == extract_all_detail_keys(timeseries)
    IN  <<"Time">>
        \o Sorted(details_keys)
        \o (IF Truthy(Get(Next1Hours(sample_entry), "summary", NoneV))
            THEN <<"Next 1hr Symbol">> ELSE <<>>)
        \o (IF Get(Get(Next1Hours(sample_entry), "details", EmptyDict),
                   "precipitation_amount", NoneV) # NoneV
            THEN <<"Next 1hr Precip (mm)">> ELSE <<>>)

InSeq(x, seq) == \E i \in 1..Len(seq) : seq[i] = x

\* One data row with the values the entry lacks left out instead of written
\* as ''.
TimeseriesRowCompact(entry, headers, details_keys) ==
    LET keys == Sorted(details_keys \cap Keys(InstantDetails(entry)))
        next_1hr == Next1Hours(entry)
    IN  <<Get(entry, "time", Str(""))>>
        \o [i \in 1..Len(keys) |-> Item(InstantDetails(entry), keys[i])]
        \o (IF InSeq("Next 1hr Symbol", headers) /\ Has(Get(next_1hr, "summary", EmptyDict), "symbol_code")
            THEN <<Item(Item(next_1hr, "summary"), "symbol_code")>> ELSE <<>>)
        \o (IF InSeq("Next 1hr Precip (mm)", headers) /\ Has(Get(next_1hr, "details", EmptyDict), "precipitation_amount")
            THEN <<Item(Item(next_1hr, "details"), "precipitation_amount")>> ELSE <<>>)

\* One data row: the time, the detail values in sorted key order, then the
\* summary fields whose headers exist.
TimeseriesRow(entry, headers, details_keys) ==
    LET keys == Sorted(details_keys)
        instant_details == InstantDetails(entry)
        next_1hr == Next1Hours(entry)
    IN  <<Get(entry, "time", Str(""))>>
        \o [i \in 1..Len(keys) |-> Get(instant_details, keys[i], Str(""))]
        \o (IF InSeq("Next 1hr Symbol", headers)
            THEN <<Get(Get(next_1hr, "summary", EmptyDict), "symbol_code", Str(""))>>
            ELSE <<>>)
        \o (IF InSeq("Next 1hr Precip (mm)", headers)
            THEN <<Get(Get(next_1hr, "details", EmptyDict), "precipitation_amount", Str(""))>>
            ELSE <<>>)

\* f"{coords[1]}, {coords[0]}"
CoordStr(a, b) == [t |-> "str", pair |-> <<a, b>>]

\* The coordinates printed in the order they are stored, longitude first.
CoordinateStringLonLat(geometry) ==
    LET coords == Get(geometry, "coordinates", List(<<>>)).items
    IN  IF Len(coords) >= 2 THEN CoordStr(coords[1], coords[2]) ELSE Str("N/A")

\* coord_str: coordinates is [lon, lat, ...]; Python's coords[1] is the
\* second element, coords[0] the first.
CoordinateString(geometry) ==
    LET coords == Get(geometry, "coordinates", List(<<>>)).items
    IN  IF Len(coords) >= 2 THEN CoordStr(coords[2], coords[1]) ELSE Str("N/A")

\* The rows written latest entry first.
RECURSIVE TimeseriesRowsReversed(_, _, _, _, _)
TimeseriesRowsReversed(timeseries, i, headers, details_keys, row) ==
    IF i > Len(timeseries) THEN NoCells
    ELSE RowCells(row, TimeseriesRow(timeseries[Len(timeseries) + 1 - i], headers, details_keys))
         @@ TimeseriesRowsReversed(timeseries, i + 1, headers, details_keys, row + 1)

\* The rows of the first sheet from the header row down.
RECURSIVE TimeseriesRows(_, _, _, _, _)
TimeseriesRows(timeseries, i, headers, details_keys, row) ==
    IF i > Len(timeseries) THEN NoCells
    ELSE RowCells(row, TimeseriesRow(timeseries[i], headers, details_keys))
         @@ TimeseriesRows(timeseries, i + 1, headers, details_keys, row + 1)

\* The 'Units' sheet with the units in the order the mapping holds them.
UnitsSheetInsertionOrder(units) ==
    Sheet("Units",
          (<<1, 1>> :> Str("Parameter Units"))
          @@ (<<2, 1>> :> Str("Parameter")) @@ (<<2, 2>> :> Str("Unit"))
          @@ [rc \in {<<2 + i, c>> : i \in 1..Len(units.items), c \in 1..2} |->
                IF rc[2] = 1 THEN Str(units.items[rc[1] - 2][1])
                ELSE units.items[rc[1] - 2][2]])

\* The 'Units' sheet: a title, a header row and one row per unit, sorted by
\* parameter.
UnitsSheet(units) ==
    LET params == Sorted(Keys(units))
    IN  Sheet("Units",
              (<<1, 1>> :> Str("Parameter Units"))
              @@ (<<2, 1>> :> Str("Parameter")) @@ (<<2, 2>> :> Str("Unit"))
              @@ [rc \in {<<2 + i, c>> : i \in 1..Len(params), c \in 1..2} |->
                    IF rc[2] = 1 THEN Str(params[rc[1] - 2])
                    ELSE Item(units, params[rc[1] - 2])])

\* A tabular path whose test of the empty series comes after the title and
\* the Units sheet are written.
format_timeseries_returning_late(data, title) ==
    LET meta == Get(Get(data, "properties", EmptyDict), "meta", EmptyDict)
    IN  <<Sheet("Timeseries Data", (<<1, 1>> :> title))>>
        \o (IF Truthy(Get(meta, "units", NoneV)) THEN <<UnitsSheet(Item(meta, "units"))>> ELSE <<>>)

\* ExcelFormatter._format_timeseries: the workbook's sheets.
format_timeseries(data, title) ==
    LET properties == Get(data, "properties", EmptyDict)
        timeseries == Get(properties, "timeseries", List(<<>>)).items
        meta == Get(properties, "meta", EmptyDict)
        geometry == Get(data, "geometry", EmptyDict)
        coord_str == CoordinateString(geometry)
        headers == TimeseriesHeaders(timeseries)
        details_keys == extract_all_detail_keys(timeseries)
        row_location == 3
        row_updated == row_location + 1
        header_row == row_updated + 2
        cells ==
            (<<1, 1>> :> title)
            @@ (<<row_location, 1>> :> Str("Location (Lat, Lon):"))
            @@ (<<row_location, 2>> :> coord_str)
            @@ (<<row_updated, 1>> :> Str("Updated:"))
            @@ (<<row_updated, 2>> :> Get(meta, "updated_at", Str("N/A")))
            @@ RowCells(header_row, [i \in 1..Len(headers) |-> Str(headers[i])])
            @@ TimeseriesRows(timeseries, 1, headers, details_keys, header_row + 1)
    IN  IF Len(timeseries) = 0
        THEN <<Sheet("Timeseries Data", NoCells)>>
        ELSE <<Sheet("Timeseries Data", cells)>>
             \o (IF Truthy(Get(meta, "units", NoneV))
                 THEN <<UnitsSheet(Item(meta, "units"))>> ELSE <<>>)

\* str(value)
StrOf(v) == IF v.t = "str" THEN v ELSE [t |-> "str", of |-> v]

\* json.dumps(data, indent=2, ensure_ascii=False): the text of the value.
JsonDumps(v) == [t |-> "str", json |-> v]

\* The key/value rows of the metadata block from row r.
MetadataCells(metadata, r) ==
    [rc \in {<<r + i - 1, c>> : i \in 1..Len(metadata.items), c \in 1..2} |->
        IF rc[2] = 1 THEN Str(metadata.items[rc[1] - r + 1][1])
        ELSE StrOf(metadata.items[rc[1] - r + 1][2])]

\* ExcelFormatter._format_generic: the workbook's sheets.
format_generic(data, title) ==
    LET row0 == 3
        has_md == Has(data, "_metadata")
        n_md == IF has_md THEN Len(Item(data, "_metadata").items) ELSE 0
        md_cells == IF has_md
                    THEN (<<row0, 1>> :> Str("Metadata"))
                         @@ MetadataCells(Item(data, "_metadata"), row0 + 1)
                    ELSE NoCells
        row1 == IF has_md THEN row0 + 1 + n_md + 1 ELSE row0
        has_err == Has(data, "error")
        err_cells == IF has_err
                     THEN (<<row1, 1>> :> Str("Error"))
                          @@ (<<row1 + 1, 1>> :> Str("Error Message"))
                          @@ (<<row1 + 1, 2>> :> Item(data, "error"))
                     ELSE NoCells
        row2 == IF has_err THEN row1 + 3 ELSE row1
    IN  << Sheet("Response Data",
                 (<<1, 1>> :> title)
                 @@ md_cells @@ err_cells
                 @@ (<<row2, 1>> :> Str("Full Response (JSON)"))
                 @@ (<<row2 + 1, 1>> :> JsonDumps(data))) >>

\* What a format call that ended in an exception leaves to its caller.
RaisedOutput(fmt) == [fmt |-> fmt, mode |-> "raised"]

\* ExcelFormatter._format_timeseries raises: past the early return, one of
\* its chained accesses meets a value that is no mapping, or the series is
\* no list of entries.
format_timeseries_raises(data) ==
    LET properties == Get(data, "properties", EmptyDict)
        series == Get(properties, "timeseries", List(<<>>))
        meta == Get(properties, "meta", EmptyDict)
        geometry == Get(data, "geometry", EmptyDict)
    IN  /\ Truthy(series)
        /\ \/ series.t # "list"
           \/ Get(geometry, "coordinates", List(<<>>)) = Raised
           \/ Get(meta, "updated_at", Str("N/A")) = Raised
           \/ Get(meta, "units", NoneV) = Raised
           \/ \E i \in 1..Len(series.items) :
                \/ Get(series.items[i], "time", Str("")) = Raised
                \/ InstantDetails(series.items[i]) = Raised
                \/ Get(Next1Hours(series.items[i]), "summary", EmptyDict) = Raised
                \/ Get(Next1Hours(series.items[i]), "details", EmptyDict) = Raised

\* metadata.items() raises on a value that is no mapping; the generic Excel
\* path, the HTML and the text formatter all make this call.
metadata_items_raises(data) ==
    Has(data, "_metadata") /\ ~IsDict(Item(data, "_metadata"))

\* ExcelFormatter.format: the workbook built, the path it is saved to and
\* returned.
ExcelFormatter_format(data, filename, title) ==
    IF is_timeseries_data(data)
    THEN IF format_timeseries_raises(data) THEN RaisedOutput("excel")
         ELSE [fmt |-> "excel", mode |-> "timeseries", wb |-> format_timeseries(data, title), returned |-> filename]
    ELSE IF metadata_items_raises(data) THEN RaisedOutput("excel")
         ELSE [fmt |-> "excel", mode |-> "generic", wb |-> format_generic(data, title), returned |-> filename]

\* A save that leaves nothing but the saved file in the directory.
WorkbookSaveAlone(fs, filename, wb) == [f \in {filename} |-> wb]

\* wb.save(filename): the file at filename is created or replaced.
WorkbookSave(fs, filename, wb) ==
    [f \in DOMAIN fs \cup {filename} |-> IF f = filename THEN wb ELSE fs[f]]

\* ------------------------------------------------------ HTMLFormatter
\* json_str.replace('&', '&amp;').replace('<', '&lt;').replace('>', '&gt;')
HtmlEscape(v) == [t |-> "str", escaped |-> v]

\* The lines of the metadata block written last key first.
MetadataPairsReversed(metadata) ==
    [i \in 1..Len(metadata.items) |->
        [key |-> metadata.items[Len(metadata.items) + 1 - i][1],
         value |-> StrOf(metadata.items[Len(metadata.items) + 1 - i][2])]]

\* The <p><strong>key:</strong> value</p> lines of the metadata block.
MetadataPairs(metadata) ==
    [i \in 1..Len(metadata.items) |->
        [key |-> metadata.items[i][1], value |-> StrOf(metadata.items[i][2])]]

\* HTMLFormatter.format: the document as its blocks, top to bottom.
HTMLFormatter_format(data, title, now) ==
    IF metadata_items_raises(data) THEN RaisedOutput("html") ELSE
    [fmt |-> "html",
     doc |-> << [kind |-> "title", text |-> title], [kind |-> "h1", text |-> title] >>
             \o (IF Has(data, "_metadata")
                 THEN << [kind |-> "metadata",
                          pairs |-> MetadataPairs(Item(data, "_metadata"))] >>
                 ELSE <<>>)
             \o (IF Has(data, "error")
                 THEN << [kind |-> "error", text |-> StrOf(Item(data, "error"))] >>
                 ELSE <<>>)
             \o << [kind |-> "json", pre |-> HtmlEscape(JsonDumps(data))],
                   [kind |-> "timestamp", at |-> now] >>]

\* ------------------------------------------------------ TextFormatter
\* The width of the rules and of the title line.
RuleWidth == 80

\* len(s)
StrLen(v) == IF "s" \in DOMAIN v THEN Len(v.s) ELSE Len(v.chars)

\* A centering that pads on the left only.
CenterLeftOnly(s, width) ==
    LET marg == width - StrLen(s)
        left == IF marg <= 0 THEN 0 ELSE marg \div 2
    IN  [kind |-> "centered", text |-> s, left |-> left, right |-> 0, width |-> left + StrLen(s)]

\* s.center(width): a string of at least width characters is returned as
\* it is; otherwise the margin is split, the odd space going to the left
\* only when width is odd too.
Center(s, width) ==
    LET marg == width - StrLen(s)
        left == IF marg <= 0 THEN 0
                ELSE marg \div 2 + (IF marg % 2 = 1 /\ width % 2 = 1 THEN 1 ELSE 0)
        right == IF marg <= 0 THEN 0 ELSE marg - left
    IN  [kind |-> "centered", text |-> s, left |-> left, right |-> right, width |-> left + StrLen(s) + right]

Rule(ch) == [kind |-> "rule", ch |-> ch, width |-> RuleWidth]
Line(s) == [kind |-> "line", text |-> s]
PairLine(key, value) == [kind |-> "pair", key |-> key, value |-> StrOf(value)]

\* TextFormatter.format: the lines joined by "\n".
TextFormatter_format(data, title, now) ==
    IF metadata_items_raises(data) THEN RaisedOutput("text") ELSE
    [fmt |-> "text",
     lines |-> << Rule("="), Center(title, RuleWidth),
                  Rule("="), Line("") >>
               \o (IF Has(data, "_metadata")
                   THEN << Line("METADATA"), Rule("-") >>
                        \o [i \in 1..Len(Item(data, "_metadata").items) |->
                              PairLine(Item(data, "_metadata").items[i][1],
                                       Item(data, "_metadata").items[i][2])]
                        \o << Line("") >>
                   ELSE <<>>)
               \o (IF Has(data, "error")
                   THEN << Line("ERROR"), Rule("-"),
                           [kind |-> "indented", value |-> StrOf(Item(data, "error"))],
                           Line("") >>
                   ELSE <<>>)
               \o << Line("FULL RESPONSE DATA"), Rule("-"),
                     [kind |-> "json", value |-> JsonDumps(data)], Line(""),
                     Rule("-"), [kind |-> "generated", at |-> now], Rule("=") >>]

\* ------------------------------------------------------ YAMLFormatter
\* The characters of a scalar, by the form the YAML resolver sees: a word,
\* a run of digits, a timestamp.
Word(s) == [form |-> "word", s |-> s]
Digits(n) == [form |-> "digits", n |-> n]
StampText(st) == [form |-> "timestamp", stamp |-> st]
IsoText(tick) == [form |-> "timestamp", iso |-> tick]

\* A string made of the digits of n (as Nominatim's "lat": "60.39").
DigitStr(n) == [t |-> "str", digits |-> n]

\* The characters of a str value.
StrText(v) ==
    IF "s" \in DOMAIN v THEN Word(v.s)
    ELSE IF "digits" \in DOMAIN v THEN Digits(v.digits)
    ELSE IF "stamp" \in DOMAIN v THEN StampText(v.stamp)
    ELSE IsoText(v.iso)

\* The str value with the given characters.
StrFromText(text) ==
    IF "s" \in DOMAIN text THEN Str(text.s)
    ELSE IF "n" \in DOMAIN text THEN DigitStr(text.n)
    ELSE IF "stamp" \in DOMAIN text THEN [t |-> "str", stamp |-> text.stamp]
    ELSE IsoFormat(text.iso)

\* The tag the resolver gives a plain scalar.
Resolve(text) ==
    IF text.form = "digits" THEN "num"
    ELSE IF text.form = "timestamp" THEN "timestamp"
    ELSE IF text.s \in {"", "null", "~"} THEN "null"
    ELSE IF text.s \in {"true", "false", "yes", "no", "on", "off"} THEN "bool"
    ELSE "str"

ScalarToken(text, quoted) == [kind |-> "scalar", text |-> text, quoted |-> quoted]

\* A scalar as the emitter writes it: a number plain, None as null, a
\* string plain only if a plain scalar of these characters resolves to str.
RepresentScalar(v) ==
    IF v.t = "num" THEN ScalarToken(Digits(v.n), FALSE)
    ELSE IF v.t = "none" THEN ScalarToken(Word("null"), FALSE)
    ELSE ScalarToken(StrText(v), Resolve(StrText(v)) # "str")

\* The items of a mapping in the order they are written.
ItemOrder(d, sort_keys) ==
    IF sort_keys
    THEN LET ks == Sorted(Keys(d)) IN [i \in 1..Len(ks) |-> <<ks[i], Item(d, ks[i])>>]
    ELSE d.items

\* yaml.dump(v, default_flow_style=False, sort_keys=...): the document as
\* the emitter's events; a block mapping or sequence opens and closes where
\* the indentation does.
RECURSIVE Represent(_, _)
RECURSIVE RepresentAll(_, _, _, _)
Represent(v, sort_keys) ==
    IF v.t = "dict"
    THEN <<[kind |-> "map_start"]>>
         \o RepresentAll(ItemOrder(v, sort_keys), 1, TRUE, sort_keys)
         \o <<[kind |-> "map_end"]>>
    ELSE IF v.t = "list"
    THEN <<[kind |-> "seq_start"]>>
         \o RepresentAll(v.items, 1, FALSE, sort_keys)
         \o <<[kind |-> "seq_end"]>>
    ELSE <<RepresentScalar(v)>>

\* The items from the i-th on; those of a mapping are <<key, value>> pairs.
RepresentAll(items, i, keyed, sort_keys) ==
    IF i > Len(items) THEN <<>>
    ELSE (IF keyed
          THEN <<RepresentScalar(Str(items[i][1]))>> \o Represent(items[i][2], sort_keys)
          ELSE Represent(items[i], sort_keys))
         \o RepresentAll(items, i + 1, keyed, sort_keys)

\* The value a scalar constructs: a quoted scalar is a str, a plain one is
\* what it resolves to.
Construct(tok) ==
    IF tok.quoted THEN StrFromText(tok.text)
    ELSE CASE Resolve(tok.text) = "num" -> Num(tok.text.n)
           [] Resolve(tok.text) = "timestamp" -> [t |-> "datetime", text |-> tok.text]
           [] Resolve(tok.text) = "null" -> NoneV
           [] Resolve(tok.text) = "bool" -> [t |-> "bool", text |-> tok.text]
           [] OTHER -> Str(tok.text.s)

\* yaml.safe_load: the node starting at event i, and the index after it.
RECURSIVE ParseNode(_, _)
RECURSIVE ParseItems(_, _, _, _)
ParseNode(toks, i) ==
    IF toks[i].kind = "map_start" THEN ParseItems(toks, i + 1, TRUE, <<>>)
    ELSE IF toks[i].kind = "seq_start" THEN ParseItems(toks, i + 1, FALSE, <<>>)
    ELSE [v |-> Construct(toks[i]), next |-> i + 1]

ParseItems(toks, i, keyed, acc) ==
    IF toks[i].kind = "map_end" THEN [v |-> Dict(acc), next |-> i + 1]
    ELSE IF toks[i].kind = "seq_end" THEN [v |-> List(acc), next |-> i + 1]
    ELSE IF keyed
    THEN LET val == ParseNode(toks, i + 1)
         IN  ParseItems(toks, val.next, keyed, Append(acc, <<Construct(toks[i]).s, val.v>>))
    ELSE LET val == ParseNode(toks, i)
         IN  ParseItems(toks, val.next, keyed, Append(acc, val.v))

YamlLoad(toks) == ParseNode(toks, 1).v

\* The formatter with yaml.dump's default sort_keys=True.
YAMLFormatter_format_sorted(data, now) ==
    [fmt |-> "yaml",
     yaml_str |-> Represent(Dict(<< <<"generated_at", IsoFormat(now)>>,
                                    <<"data", data>> >>), TRUE)]

\* YAMLFormatter.format
YAMLFormatter_format(data, now) ==
    [fmt |-> "yaml",
     yaml_str |-> Represent(Dict(<< <<"generated_at", IsoFormat(now)>>,
                                    <<"data", data>> >>), FALSE)]

\* --------------------------------------------------- formatter inputs
\* Longest timeseries of a drawn response.
MaxEntries == 2

\* data.instant.details of an entry: absent, or one of two overlapping
\* parameter sets, neither written in sorted order.
DetailsVariants ==
    { NoneV,
      Dict(<< <<"b", Num(2)>>, <<"a", Num(1)>> >>),
      Dict(<< <<"c", Num(3)>>, <<"b", Num(4)>> >>) }

\* data.next_1_hours of an entry: absent, or with both summary fields.
Next1HoursVariants ==
    { NoneV,
      Dict(<< <<"summary", Dict(<< <<"symbol_code", Str("rain")>> >>)>>,
              <<"details", Dict(<< <<"precipitation_amount", Num(5)>> >>)>> >>) }

\* A timeseries entry; absent parts leave their keys out.
EntryOf(time, details, next_1_hours) ==
    Dict(<< <<"time", time>> >>
         \o (IF details = NoneV /\ next_1_hours = NoneV THEN <<>>
             ELSE << <<"data",
                       Dict((IF details = NoneV THEN <<>>
                             ELSE << <<"instant", Dict(<< <<"details", details>> >>)>> >>)
                            \o (IF next_1_hours = NoneV THEN <<>>
                                ELSE << <<"next_1_hours", next_1_hours>> >>))>> >>))

\* Each entry carries the hour its variant stands for, so that a series may
\* be out of chronological order.
EntryHour(details, next_1_hours) ==
    (IF details = NoneV THEN 0 ELSE IF Has(details, "a") THEN 1 ELSE 2)
    + (IF next_1_hours = NoneV THEN 0 ELSE 3)

Entries ==
    { EntryOf(TimeStr(DateTime(2024, 1, 1, EntryHour(d, n), 0, 0, 0)), d, n) :
        d \in DetailsVariants, n \in Next1HoursVariants }

SeriesOfLen(n) == [1..n -> Entries]
AllSeries == UNION { SeriesOfLen(n) : n \in 0..MaxEntries }

\* properties.meta: absent, without units, with units.
MetaVariants ==
    { NoneV,
      Dict(<< <<"updated_at", IsoFormat(0)>> >>),
      Dict(<< <<"updated_at", IsoFormat(0)>>,
              <<"units", Dict(<< <<"b", Str("m")>>, <<"a", Str("celsius")>> >>)>> >>) }

PropertiesOf(meta, series) ==
    Dict((IF meta = NoneV THEN <<>> ELSE << <<"meta", meta>> >>)
         \o (IF series = NoneV THEN <<>> ELSE << <<"timeseries", List(series.items)>> >>))

\* properties: absent, not a mapping, a mapping without timeseries, a
\* mapping with timeseries.
PropertiesVariants ==
    { NoneV, Str("n/a") }
    \cup { PropertiesOf(m, NoneV) : m \in MetaVariants }
    \cup { PropertiesOf(m, List(s)) : m \in MetaVariants, s \in AllSeries }

GeometryVariants ==
    { NoneV,
      Dict(<< <<"type", Str("Point")>>,
              <<"coordinates", List(<<Num(532), Num(6039)>>)>> >>) }

MetadataVariants ==
    { NoneV,
      Dict(<< <<"fetched_at", IsoFormat(1)>>, <<"lat", DigitStr(6039)>>,
              <<"api", Str("Test API")>> >>) }

ErrorVariants == { NoneV, Str("timeout") }

Optional(k, v) == IF v = NoneV THEN <<>> ELSE << <<k, v>> >>

\* A response, its keys in the order the API clients build them.
ResponseOf(g, p, md, e) ==
    Dict(Optional("geometry", g) \o Optional("properties", p)
         \o Optional("_metadata", md) \o Optional("error", e))

Responses ==
    { ResponseOf(g, p, md, e) :
        g \in GeometryVariants, p \in PropertiesVariants,
        md \in MetadataVariants, e \in ErrorVariants }

DefaultTitle == Str("API Response")

\* ------------------------------------------------ the formatters' runs
InitFormat ==
    /\ clock = 0
    /\ tide_args = NoCall /\ tide_last = NoCall /\ tide_prev = NoCall
    /\ the_title = DefaultTitle
    /\ response \in Responses
    /\ out = NoOutput
    /\ files = NoFiles
    /\ IdleNominatim /\ IdleEscape /\ IdleClients

\* The paths a caller hands to ExcelFormatter.format.
Filenames == { "output/weather.xlsx" }

\* ExcelFormatter.format(data, filename, title): builds the workbook, saves
\* it at filename and returns filename; a call that raises saves nothing.
FormatExcel ==
    /\ \E filename \in Filenames :
        /\ out' = ExcelFormatter_format(response, filename, the_title)
        /\ files' = IF out'.mode = "raised" THEN files
                    ELSE WorkbookSave(files, filename, out'.wb)
    /\ UNCHANGED <<clock, tide_vars, the_title, response, nominatim_vars, escape_vars, parse_vars, fetch_call, collector_vars, threads>>

\* HTMLFormatter.format(data, title): returns the document.
FormatHTML ==
    /\ out' = HTMLFormatter_format(response, the_title, clock)
    /\ UNCHANGED <<clock, tide_vars, the_title, response, files, nominatim_vars, escape_vars, parse_vars, fetch_call, collector_vars, threads>>

\* TextFormatter.format(data, title): returns the text.
FormatText ==
    /\ out' = TextFormatter_format(response, the_title, clock)
    /\ UNCHANGED <<clock, tide_vars, the_title, response, files, nominatim_vars, escape_vars, parse_vars, fetch_call, collector_vars, threads>>

\* A YAML formatter that stamps generated_at into the response itself
\* instead of wrapping it.
FormatYAMLStamping ==
    /\ ~Has(response, "generated_at")
    /\ response' = Dict(<< <<"generated_at", IsoFormat(clock)>> >> \o response.items)
    /\ out' = YAMLFormatter_format(response', clock)
    /\ UNCHANGED <<clock, tide_vars, the_title, files, nominatim_vars, escape_vars, parse_vars, fetch_call, collector_vars, threads>>

\* YAMLFormatter.format(data): returns the YAML text.
FormatYAML ==
    /\ out' = YAMLFormatter_format(response, clock)
    /\ UNCHANGED <<clock, tide_vars, the_title, response, files, nominatim_vars, escape_vars, parse_vars, fetch_call, collector_vars, threads>>

NextFormat == FormatExcel \/ FormatHTML \/ FormatText \/ FormatYAML

SpecFormat == InitFormat /\ [][NextFormat]_vars

\* ----------------------------------------------- reading a workbook
HeaderRow == 6

\* The strings written in row r of a sheet, left to right.
RowStrings(sheet, r) ==
    LET n == Cardinality({rc \in DOMAIN sheet.cells : rc[1] = r})
    IN  [i \in 1..n |-> sheet.cells[<<r, i>>].s]

\* The timeseries of a response detected as timeseries-shaped.
ResponseSeries(data) == Item(Item(data, "properties"), "timeseries").items

Tabular == out.fmt = "excel" /\ out.mode = "timeseries"

\* The header row exists once the series has an entry.
TabularWithRows == Tabular /\ Len(ResponseSeries(response)) > 0

\* A sequence is strictly ascending in key order.
Ascending(seq) == \A i \in 1..(Len(seq) - 1) : Rank(seq[i]) < Rank(seq[i + 1])

\* The detail keys of every entry, read from the response key by key.
AllDetailKeys(series) ==
    { k \in {KeyAlphabet[i] : i \in 1..Len(KeyAlphabet)} :
        \E i \in 1..Len(series) :
            /\ Has(series[i], "data")
            /\ Has(Item(series[i], "data"), "instant")
            /\ Has(Item(Item(series[i], "data"), "instant"), "details")
            /\ Has(Item(Item(Item(series[i], "data"), "instant"), "details"), k) }

TrailingHeaders == {"Next 1hr Symbol", "Next 1hr Precip (mm)"}

\* The detail columns of the header row: what stands between 'Time' and the
\* trailing summary headers.
DetailColumns(headers) ==
    SelectSeq(SubSeq(headers, 2, Len(headers)), LAMBDA h : h \notin TrailingHeaders)

\* C5: in tabular mode the detail columns are exactly the union of the
\* data.instant.details keys of all entries, sorted ascending; entries with
\* {a,b} and {b,c} yield the columns [Time, a, b, c].
C5_ColumnsAreUnionOfKeys ==
    TabularWithRows =>
        LET headers == RowStrings(out.wb[1], HeaderRow)
            cols == DetailColumns(headers)
            series == ResponseSeries(response)
        IN  /\ {cols[i] : i \in 1..Len(cols)} = AllDetailKeys(series)
            /\ Ascending(cols)
            /\ (/\ Len(series) = 2
                /\ AllDetailKeys(<<series[1]>>) = {"a", "b"}
                /\ AllDetailKeys(<<series[2]>>) = {"b", "c"})
               => SubSeq(headers, 1, 4) = <<"Time", "a", "b", "c">>

\* A run of C5's case: entry 1 has {a,b}, entry 2 has {b,c}, three columns.
C5_Witness ==
    /\ TabularWithRows
    /\ LET series == ResponseSeries(response)
       IN  /\ Len(series) = 2
           /\ AllDetailKeys(<<series[1]>>) = {"a", "b"}
           /\ AllDetailKeys(<<series[2]>>) = {"b", "c"}
    /\ RowStrings(out.wb[1], HeaderRow) = <<"Time", "a", "b", "c">>

\* The response has properties.timeseries: 'properties' is a mapping with
\* the key 'timeseries'.
HasTimeseries(data) ==
    /\ Has(data, "properties")
    /\ Item(data, "properties").t = "dict"
    /\ Has(Item(data, "properties"), "timeseries")

HasUnits(data) ==
    /\ Has(data, "properties") /\ Item(data, "properties").t = "dict"
    /\ Has(Item(data, "properties"), "meta")
    /\ Has(Item(Item(data, "properties"), "meta"), "units")

HasCoordinates(data) ==
    Has(data, "geometry") /\ Has(Item(data, "geometry"), "coordinates")

\* C7: a response with no properties.timeseries never triggers tabular mode:
\* it is rendered by the generic path.
C7_NoTimeseriesNoTabular ==
    (out.fmt = "excel" /\ ~HasTimeseries(response)) =>
        /\ out.mode = "generic"
        /\ out.wb[1].title = "Response Data"

\* A run of C7's case: 'properties' is a mapping without 'timeseries' and the
\* workbook is the generic one.
C7_Witness ==
    /\ out.fmt = "excel"
    /\ Has(response, "properties")
    /\ Item(response, "properties").t = "dict"
    /\ ~Has(Item(response, "properties"), "timeseries")
    /\ out.mode = "generic"

\* C8 as claimed: tabular mode exactly when properties.timeseries,
\* properties.meta.units and geometry.coordinates are all present.
C8_TabularIffFullShape ==
    out.fmt = "excel" =>
        (Tabular <=> (HasTimeseries(response) /\ HasUnits(response)
                      /\ HasCoordinates(response)))

\* C8 as amended: tabular mode exactly when the response has
\* properties.timeseries; properties.meta.units and geometry.coordinates
\* are not required.
C8_TabularIffTimeseries ==
    out.fmt = "excel" =>
        /\ Tabular <=> HasTimeseries(response)
        /\ out.wb[1].title = (IF HasTimeseries(response) THEN "Timeseries Data"
                              ELSE "Response Data")

\* A run of C8's case: a response with timeseries but neither units nor
\* coordinates, rendered as a table.
C8_Witness ==
    /\ Tabular
    /\ HasTimeseries(response)
    /\ ~HasUnits(response)
    /\ ~HasCoordinates(response)
    /\ Len(ResponseSeries(response)) > 0
    /\ out.wb[1].cells[<<HeaderRow, 1>>] = Str("Time")

\* C10: the header row is exactly 'Time', the detail keys ascending, then
\* 'Next 1hr Symbol' before 'Next 1hr Precip (mm)' when present; nothing
\* else and nothing twice.
C10_HeaderRowExact ==
    TabularWithRows =>
        LET headers == RowStrings(out.wb[1], HeaderRow)
            cols == DetailColumns(headers)
            tail == SubSeq(headers, 2 + Len(cols), Len(headers))
        IN  /\ headers[1] = "Time"
            /\ SubSeq(headers, 2, 1 + Len(cols)) = cols
            /\ Ascending(cols)
            /\ \A i \in 1..Len(cols) : cols[i] \in AllDetailKeys(ResponseSeries(response))
            /\ tail \in { <<>>, <<"Next 1hr Symbol">>, <<"Next 1hr Precip (mm)">>,
                          <<"Next 1hr Symbol", "Next 1hr Precip (mm)">> }
            /\ \A i, j \in 1..Len(headers) : i # j => headers[i] # headers[j]
            /\ \A rc \in DOMAIN out.wb[1].cells :
                   rc[1] = HeaderRow => rc[2] \in 1..Len(headers)

\* A run of C10's case: detail columns and both trailing columns.
C10_Witness ==
    /\ TabularWithRows
    /\ RowStrings(out.wb[1], HeaderRow)
         = <<"Time", "a", "b", "c", "Next 1hr Symbol", "Next 1hr Precip (mm)">>

\* ------------------------------------------- reading the four outputs
\* The block of the given kind in an HTML document, if any.
HtmlBlocks(doc, kind) == {i \in 1..Len(doc) : doc[i].kind = kind}

\* The pairs of a metadata mapping as the <<key, display string>> rendered.
RenderedPairs(metadata) ==
    [i \in 1..Len(metadata.items) |->
        <<metadata.items[i][1], StrOf(metadata.items[i][2])>>]

\* An error block showing the error string.
ErrorBlock(o, data) ==
    LET err == Item(data, "error")
    IN  CASE o.fmt = "excel" ->
               \E rc \in DOMAIN o.wb[1].cells :
                   /\ o.wb[1].cells[rc] = Str("Error")
                   /\ <<rc[1] + 1, 2>> \in DOMAIN o.wb[1].cells
                   /\ o.wb[1].cells[<<rc[1] + 1, 2>>] = err
          [] o.fmt = "html" ->
               \E i \in HtmlBlocks(o.doc, "error") : o.doc[i].text = err
          [] o.fmt = "text" ->
               \E i \in 1..(Len(o.lines) - 2) :
                   /\ o.lines[i] = Line("ERROR")
                   /\ o.lines[i + 2] = [kind |-> "indented", value |-> err]
          [] o.fmt = "yaml" ->
               LET data_out == Item(YamlLoad(o.yaml_str), "data")
               IN  Has(data_out, "error") /\ Item(data_out, "error") = err

\* A metadata block showing every pair of the metadata mapping.
MetadataBlock(o, data) ==
    LET md == Item(data, "_metadata")
        pairs == RenderedPairs(md)
    IN  CASE o.fmt = "excel" ->
               \E rc \in DOMAIN o.wb[1].cells :
                   /\ o.wb[1].cells[rc] = Str("Metadata")
                   /\ \A i \in 1..Len(pairs) :
                       /\ <<rc[1] + i, 2>> \in DOMAIN o.wb[1].cells
                       /\ o.wb[1].cells[<<rc[1] + i, 1>>] = Str(pairs[i][1])
                       /\ o.wb[1].cells[<<rc[1] + i, 2>>] = pairs[i][2]
          [] o.fmt = "html" ->
               \E i \in HtmlBlocks(o.doc, "metadata") :
                   [j \in 1..Len(o.doc[i].pairs) |->
                       <<o.doc[i].pairs[j].key, o.doc[i].pairs[j].value>>] = pairs
          [] o.fmt = "text" ->
               \E i \in 1..Len(o.lines) :
                   /\ o.lines[i] = Line("METADATA")
                   /\ \A j \in 1..Len(pairs) :
                       /\ i + 1 + j <= Len(o.lines)
                       /\ o.lines[i + 1 + j] = [kind |-> "pair", key |-> pairs[j][1],
                                                value |-> pairs[j][2]]
          [] o.fmt = "yaml" ->
               LET data_out == Item(YamlLoad(o.yaml_str), "data")
               IN  Has(data_out, "_metadata") /\ Item(data_out, "_metadata") = md

\* C6: a response with an error string renders an error block in each of the
\* four formats, and the metadata block still renders when _metadata is
\* present, whether or not the response is timeseries-shaped.
C6_ErrorBlockInEveryFormat ==
    (out.fmt # "none" /\ Has(response, "error")) =>
        /\ ErrorBlock(out, response)
        /\ Has(response, "_metadata") => MetadataBlock(out, response)

\* C9: deserializing YAMLFormatter.format's output gives a mapping with
\* exactly the keys generated_at and data, in that order; data equals the
\* response with its nested key order; generated_at is a timestamp string.
C9_YamlRoundTrip ==
    out.fmt = "yaml" =>
        LET loaded == YamlLoad(out.yaml_str)
        IN  /\ loaded.t = "dict"
            /\ [i \in 1..Len(loaded.items) |-> loaded.items[i][1]]
                 = <<"generated_at", "data">>
            /\ Item(loaded, "data") = response
            /\ Item(loaded, "generated_at") = IsoFormat(clock)

\* A run of C9's case: a response whose keys are not in sorted order, with a
\* series of two entries and a string of digits among the metadata.
C9_Witness ==
    /\ out.fmt = "yaml"
    /\ HasTimeseries(response)
    /\ Len(ResponseSeries(response)) = 2
    /\ Has(response, "_metadata")
    /\ Item(Item(response, "_metadata"), "lat") = DigitStr(6039)
    /\ Item(YamlLoad(out.yaml_str), "data") = response

\* =====================================================================
\* The tabular mode of ExcelFormatter
\* =====================================================================
\* data.next_1_hours of an entry: absent, both summary fields, the symbol
\* alone, a summary that carries no symbol_code, the precipitation alone.
TableNext1Hours ==
    [ none |-> NoneV,
      both |-> Dict(<< <<"summary", Dict(<< <<"symbol_code", Str("rain")>> >>)>>,
                       <<"details", Dict(<< <<"precipitation_amount", Num(5)>> >>)>> >>),
      symbol |-> Dict(<< <<"summary", Dict(<< <<"symbol_code", Str("cloudy")>> >>)>> >>),
      other |-> Dict(<< <<"summary", Dict(<< <<"symbol_confidence", Str("certain")>> >>)>> >>),
      precip |-> Dict(<< <<"details", Dict(<< <<"precipitation_amount", Num(7)>> >>)>> >>) ]

TableDetails ==
    [ none |-> NoneV,
      ba |-> Dict(<< <<"b", Num(2)>>, <<"a", Num(1)>> >>),
      cb |-> Dict(<< <<"c", Num(3)>>, <<"b", Num(4)>> >>) ]

\* The entries of the drawn series: <<hour, details, next_1_hours>>.  The
\* hours follow no order of the variants, so a series need not be
\* chronological.
TableEntryParts ==
    { <<5, "ba", "none">>, <<3, "cb", "both">>, <<4, "none", "symbol">>,
      <<1, "ba", "other">>, <<2, "none", "none">>, <<0, "cb", "precip">> }

TableEntries ==
    { EntryOf(TimeStr(DateTime(2024, 1, 1, p[1], 0, 0, 0)), TableDetails[p[2]], TableNext1Hours[p[3]]) : p \in TableEntryParts }

TableSeries == UNION { [1..n -> TableEntries] : n \in 0..MaxEntries }

\* properties.meta: as before, and with an empty units mapping.
TableMeta ==
    MetaVariants \cup { Dict(<< <<"updated_at", IsoFormat(0)>>, <<"units", EmptyDict>> >>) }

\* geometry: absent, without coordinates, with one, two ([lon, lat]) and
\* three ([lon, lat, altitude]) coordinates.
TableGeometry ==
    { NoneV,
      Dict(<< <<"type", Str("Point")>> >>),
      Dict(<< <<"type", Str("Point")>>, <<"coordinates", List(<<Num(532)>>)>> >>),
      Dict(<< <<"type", Str("Point")>>, <<"coordinates", List(<<Num(532), Num(6039)>>)>> >>),
      Dict(<< <<"type", Str("Point")>>, <<"coordinates", List(<<Num(532), Num(6039), Num(12)>>)>> >>) }

\* The responses rendered as tables: MET-shaped ones, and what the tide
\* generator returns for a two-hour window.
TableResponses ==
    { ResponseOf(g, PropertiesOf(m, List(s)), NoneV, NoneV) : g \in TableGeometry, m \in TableMeta, s \in TableSeries }
    \cup { generate_sample_tide_data(6039, 532, LocationInfo(6039, 532), ExampleFrom, ExampleTo, 7, 0, 0) }

InitTable ==
    /\ clock = 0
    /\ IdleTide /\ IdleNominatim /\ IdleEscape /\ IdleClients
    /\ the_title = DefaultTitle
    /\ response \in TableResponses
    /\ out = NoOutput
    /\ files = NoFiles

NextTable == FormatExcel

SpecTable == InitTable /\ [][NextTable]_vars

\* v[path[1]][path[2]]... exists: every key of the path is present.
RECURSIVE HasPath(_, _)
HasPath(v, path) ==
    IF path = <<>> THEN TRUE
    ELSE /\ v.t = "dict"
         /\ Has(v, path[1])
         /\ HasPath(Item(v, path[1]), Tail(path))

\* The header row of the table written.
TableHeaders == RowStrings(out.wb[1], HeaderRow)

Path_symbol_code == <<"data", "next_1_hours", "summary", "symbol_code">>
Path_precipitation_amount == <<"data", "next_1_hours", "details", "precipitation_amount">>

\* C11: in tabular mode the column 'Next 1hr Symbol' is added if and only
\* if the first entry has data.next_1_hours.summary.symbol_code, and the
\* column 'Next 1hr Precip (mm)' if and only if the first entry has
\* data.next_1_hours.details.precipitation_amount; later entries never
\* change the column set.
C11_TrailingColumnsFromFirstEntry ==
    TabularWithRows =>
        LET first == ResponseSeries(response)[1]
        IN  /\ InSeq("Next 1hr Symbol", TableHeaders) <=> HasPath(first, Path_symbol_code)
            /\ InSeq("Next 1hr Precip (mm)", TableHeaders)
                 <=> HasPath(first, Path_precipitation_amount)


\* An Excel call made on a response with a non-empty series.
ExcelOfSeries == out.fmt = "excel" /\ Len(ResponseSeries(response)) > 0

\* The rows of a sheet that have a cell.
RowsUsed(sheet) == {rc[1] : rc \in DOMAIN sheet.cells}

\* The hour of an entry's time stamp.
HourOf(entry) == Item(entry, "time").stamp[4]

\* C12: in tabular mode the data rows are one per timeseries entry, in the
\* order of the input (no re-sorting, even when the input is not
\* chronological), immediately below the header row, and the first cell of
\* each row is that entry's raw time string.
C12_RowsInInputOrder ==
    ExcelOfSeries =>
        /\ Tabular
        /\ LET series == ResponseSeries(response)
               sheet == out.wb[1]
           IN  /\ {r \in RowsUsed(sheet) : r > HeaderRow}
                    = (HeaderRow + 1)..(HeaderRow + Len(series))
               /\ \A i \in 1..Len(series) :
                    /\ <<HeaderRow + i, 1>> \in DOMAIN sheet.cells
                    /\ sheet.cells[<<HeaderRow + i, 1>>] = Item(series[i], "time")

\* A run of C12's case: the second entry is earlier than the first and the
\* rows keep the input order.
C12_Witness ==
    /\ TabularWithRows
    /\ LET series == ResponseSeries(response)
       IN  /\ Len(series) = 2
           /\ HourOf(series[2]) < HourOf(series[1])
           /\ out.wb[1].cells[<<HeaderRow + 1, 1>>] = Item(series[1], "time")
           /\ out.wb[1].cells[<<HeaderRow + 2, 1>>] = Item(series[2], "time")

\* The value at the end of a path of keys; '' when a key is missing.
RECURSIVE AtPath(_, _)
AtPath(v, path) ==
    IF path = <<>> THEN v
    ELSE IF v.t = "dict" /\ Has(v, path[1]) THEN AtPath(Item(v, path[1]), Tail(path))
    ELSE Str("")

\* The entry's value for a header, read from the response key by key.
ValueFor(entry, header) ==
    CASE header = "Time" -> AtPath(entry, <<"time">>)
      [] header = "Next 1hr Symbol" -> AtPath(entry, Path_symbol_code)
      [] header = "Next 1hr Precip (mm)" -> AtPath(entry, Path_precipitation_amount)
      [] OTHER -> AtPath(entry, <<"data", "instant", "details", header>>)

\* C13: in tabular mode, for every row and every header column, the cell
\* under header k holds that entry's value for k when the entry has it and
\* is empty otherwise; a missing key never raises and never shifts a later
\* value into a column with a different header.
C13_CellsUnderTheirHeaders ==
    ExcelOfSeries =>
        /\ Tabular
        /\ LET series == ResponseSeries(response)
               cells == out.wb[1].cells
           IN  \A i \in 1..Len(series) :
                /\ {rc[2] : rc \in {x \in DOMAIN cells : x[1] = HeaderRow + i}}
                     = 1..Len(TableHeaders)
                /\ \A c \in 1..Len(TableHeaders) :
                     /\ <<HeaderRow + i, c>> \in DOMAIN cells
                     /\ cells[<<HeaderRow + i, c>>] = ValueFor(series[i], TableHeaders[c])

\* A run of C13's case: the second entry lacks detail 'a' and the symbol,
\* its cells there are empty and its 'b' and 'c' stand under 'b' and 'c'.
C13_Witness ==
    /\ TabularWithRows
    /\ TableHeaders = <<"Time", "a", "b", "c", "Next 1hr Symbol">>
    /\ LET series == ResponseSeries(response)
           cells == out.wb[1].cells
       IN  /\ Len(series) = 2
           /\ ~HasPath(series[2], <<"data", "instant", "details", "a">>)
           /\ cells[<<HeaderRow + 2, 2>>] = Str("")
           /\ cells[<<HeaderRow + 2, 3>>] = Num(4)
           /\ cells[<<HeaderRow + 2, 4>>] = Num(3)
           /\ cells[<<HeaderRow + 2, 5>>] = Str("")

\* The sheets of the workbook titled 'Units'.
UnitsSheets == {i \in 1..Len(out.wb) : out.wb[i].title = "Units"}

\* properties.meta.units of a response, '' when absent.
ResponseUnits(data) == AtPath(data, <<"properties", "meta", "units">>)

\* C14: in tabular mode the second sheet 'Units' is present only if
\* properties.meta.units is non-empty, and when present it lists every
\* parameter-to-unit pair exactly once, sorted by parameter name.
C14_UnitsSheet ==
    Tabular =>
        /\ UnitsSheets \subseteq {2}
        /\ Len(out.wb) <= 2
        /\ UnitsSheets # {} =>
            LET units == ResponseUnits(response)
                cells == out.wb[2].cells
                n == Cardinality(RowsUsed(out.wb[2]) \ {1, 2})
            IN  /\ units.t = "dict" /\ Len(units.items) > 0
                /\ n = Len(units.items)
                /\ RowsUsed(out.wb[2]) = 1..(2 + n)
                /\ \A i \in 1..n :
                     /\ Has(units, cells[<<2 + i, 1>>].s)
                     /\ cells[<<2 + i, 2>>] = Item(units, cells[<<2 + i, 1>>].s)
                /\ \A i \in 1..(n - 1) :
                     Rank(cells[<<2 + i, 1>>].s) < Rank(cells[<<3 + i, 1>>].s)

\* A run of C14's case: units written as b, a and listed as a, b.
C14_Witness ==
    /\ Tabular
    /\ UnitsSheets = {2}
    /\ ResponseUnits(response).items[1][1] = "b"
    /\ out.wb[2].cells[<<3, 1>>] = Str("a") /\ out.wb[2].cells[<<3, 2>>] = Str("celsius")
    /\ out.wb[2].cells[<<4, 1>>] = Str("b") /\ out.wb[2].cells[<<4, 2>>] = Str("m")

LocationRow == 3

\* C15: in tabular mode the location row shows 'latitude, longitude' taken
\* from geometry.coordinates = [lon, lat] in reversed order; when geometry
\* or coordinates is absent or has fewer than two elements the row shows
\* 'N/A' instead of raising.
C15_LocationRow ==
    ExcelOfSeries =>
        /\ Tabular
        /\ LET cells == out.wb[1].cells
               coords == AtPath(response, <<"geometry", "coordinates">>)
           IN  /\ cells[<<LocationRow, 1>>] = Str("Location (Lat, Lon):")
               /\ cells[<<LocationRow, 2>>] =
                    IF coords.t = "list" /\ Len(coords.items) >= 2
                    THEN [t |-> "str", pair |-> <<coords.items[2], coords.items[1]>>]
                    ELSE Str("N/A")

\* A run of C15's case: the response the tide generator returns for
\* latitude 60.39, longitude 5.32 shows '60.39, 5.32'.
C15_Witness ==
    /\ TabularWithRows
    /\ AtPath(response, <<"geometry", "coordinates">>) = List(<<Num(532), Num(6039)>>)
    /\ Has(response, "_metadata")
    /\ out.wb[1].cells[<<LocationRow, 2>>] = [t |-> "str", pair |-> <<Num(6039), Num(532)>>]

\* =====================================================================
\* The escaping of the serialized body in HTMLFormatter.format
\* =====================================================================
\* Longest serialized body drawn, in characters.
MaxBodyLen == 4

\* The characters of the drawn bodies: the three escaped ones and those a
\* body needs to spell an entity itself.
BodyAlphabet == {"&", "<", ">", "l", "t", ";"}

\* A text is the sequence of its characters; json.dumps never returns ''.
Bodies == UNION { [1..n -> BodyAlphabet] : n \in 1..MaxBodyLen }

AMP == <<"&", "a", "m", "p", ";">>
LT == <<"&", "l", "t", ";">>
GT == <<"&", "g", "t", ";">>

\* text.replace(ch, rep) for a one-character ch
RECURSIVE Replace(_, _, _)
Replace(text, ch, rep) ==
    IF text = <<>> THEN <<>>
    ELSE (IF Head(text) = ch THEN rep ELSE <<Head(text)>>) \o Replace(Tail(text), ch, rep)

\* The three replacements with '&' replaced last.
EscapeAmpLast(text) == Replace(Replace(Replace(text, "<", LT), ">", GT), "&", AMP)

\* json_str.replace('&', '&amp;').replace('<', '&lt;').replace('>', '&gt;')
Escape(text) == Replace(Replace(Replace(text, "&", AMP), "<", LT), ">", GT)

InitEscape ==
    /\ clock = 0
    /\ IdleTide /\ IdleFormat /\ IdleNominatim /\ IdleClients
    /\ json_str \in Bodies
    /\ pre_text = NoText

\* The body is escaped and placed inside <pre>.
EscapeBody ==
    /\ pre_text' = Escape(json_str)
    /\ UNCHANGED <<clock, tide_vars, format_vars, nominatim_vars, json_str, parse_vars, fetch_call, collector_vars, threads>>

NextEscape == EscapeBody

SpecEscape == InitEscape /\ [][NextEscape]_vars

\* text starts with the characters of prefix
StartsWith(text, prefix) ==
    Len(text) >= Len(prefix) /\ SubSeq(text, 1, Len(prefix)) = prefix

\* What a reader of the markup makes of text: each of the three entities
\* read once, left to right, everything else kept.
RECURSIVE Unescape(_)
Unescape(text) ==
    IF text = <<>> THEN <<>>
    ELSE IF StartsWith(text, AMP) THEN <<"&">> \o Unescape(SubSeq(text, Len(AMP) + 1, Len(text)))
    ELSE IF StartsWith(text, LT) THEN <<"<">> \o Unescape(SubSeq(text, Len(LT) + 1, Len(text)))
    ELSE IF StartsWith(text, GT) THEN <<">">> \o Unescape(SubSeq(text, Len(GT) + 1, Len(text)))
    ELSE <<Head(text)>> \o Unescape(Tail(text))

\* The entity of one character of the body.
EntityOf(ch) ==
    CASE ch = "&" -> AMP [] ch = "<" -> LT [] ch = ">" -> GT [] OTHER -> <<ch>>

\* The body with each character replaced by its entity, once.
RECURSIVE EachEscapedOnce(_)
EachEscapedOnce(text) ==
    IF text = <<>> THEN <<>> ELSE EntityOf(Head(text)) \o EachEscapedOnce(Tail(text))

\* C16: the text inside <pre> contains no raw '<' or '>', every '&' of the
\* serialized body becomes '&amp;', the entities produced for '<' and '>'
\* are not escaped a second time, and un-escaping the text gives back the
\* serialized body exactly.
C16_BodyEscaped ==
    pre_text # NoText =>
        /\ \A i \in 1..Len(pre_text) : pre_text[i] \notin {"<", ">"}
        /\ \A i \in 1..Len(pre_text) :
             pre_text[i] = "&" =>
                \/ StartsWith(SubSeq(pre_text, i, Len(pre_text)), AMP)
                \/ StartsWith(SubSeq(pre_text, i, Len(pre_text)), LT)
                \/ StartsWith(SubSeq(pre_text, i, Len(pre_text)), GT)
        /\ pre_text = EachEscapedOnce(json_str)
        /\ Unescape(pre_text) = json_str

\* A run of C16's case: the body is the text '&lt;' and the <pre> text is
\* '&amp;lt;', which reads back as '&lt;'; and a body with all three
\* characters.
C16_Witness ==
    \/ (json_str = <<"&", "l", "t", ";">> /\ pre_text = AMP \o <<"l", "t", ";">>)
    \/ (json_str = <<"<", "&", ">">> /\ pre_text = LT \o AMP \o GT)

\* =====================================================================
\* The four formatters on responses with optional parts missing
\* =====================================================================
\* The call returned: no exception reached the caller.
Returned(o) == ~("mode" \in DOMAIN o /\ o.mode = "raised")

UpdatedRow == 4

\* The texts of the plain lines of a text output.
PlainLines(o) == {o.lines[i].text : i \in {j \in 1..Len(o.lines) : o.lines[j].kind = "line"}}

\* C17: for every well-formed response none of the four format functions
\* raises, whichever of the optional sub-keys (_metadata, error, geometry,
\* properties.meta, data, data.instant.details, data.next_1_hours) are
\* absent; an absent sub-key yields an empty cell or a skipped section.
C17_AbsentKeysNeverRaise ==
    out.fmt # "none" =>
        /\ Returned(out)
        /\ out.fmt = "html" =>
            /\ ~Has(response, "_metadata") => HtmlBlocks(out.doc, "metadata") = {}
            /\ ~Has(response, "error") => HtmlBlocks(out.doc, "error") = {}
            /\ HtmlBlocks(out.doc, "json") # {}
        /\ out.fmt = "text" =>
            /\ ~Has(response, "_metadata") => "METADATA" \notin PlainLines(out)
            /\ ~Has(response, "error") => "ERROR" \notin PlainLines(out)
            /\ "FULL RESPONSE DATA" \in PlainLines(out)
        /\ (out.fmt = "excel" /\ HasTimeseries(response) /\ Len(ResponseSeries(response)) > 0) =>
            LET series == ResponseSeries(response)
                cells == out.wb[1].cells
            IN  /\ ~Has(response, "geometry") => cells[<<LocationRow, 2>>] = Str("N/A")
                /\ ~HasPath(response, <<"properties", "meta">>) =>
                       (cells[<<UpdatedRow, 2>>] = Str("N/A") /\ Len(out.wb) = 1)
                /\ \A i \in 1..Len(series) : \A c \in 2..Len(TableHeaders) :
                       (/\ TableHeaders[c] \notin TrailingHeaders
                        /\ ~HasPath(series[i], <<"data", "instant", "details">>))
                       => cells[<<HeaderRow + i, c>>] = Str("")
                /\ \A i \in 1..Len(series) : \A c \in 2..Len(TableHeaders) :
                       (/\ TableHeaders[c] \in TrailingHeaders
                        /\ ~HasPath(series[i], <<"data", "next_1_hours">>))
                       => cells[<<HeaderRow + i, c>>] = Str("")

\* A run of C17's case: no _metadata, error, geometry or meta, the second
\* entry without data; the table is written with empty cells in its row.
C17_Witness ==
    /\ TabularWithRows
    /\ Keys(response) = {"properties"}
    /\ Keys(Item(response, "properties")) = {"timeseries"}
    /\ LET series == ResponseSeries(response)
       IN  /\ Len(series) = 2
           /\ ~Has(series[2], "data")
           /\ HasPath(series[1], <<"data", "instant", "details">>)
           /\ HasPath(series[1], <<"data", "next_1_hours">>)
           /\ \A c \in 2..Len(TableHeaders) : out.wb[1].cells[<<HeaderRow + 2, c>>] = Str("")
    /\ Len(TableHeaders) = 5

\* =====================================================================
\* NominatimAPI: the spacing of its requests
\* =====================================================================
\* Ticks of the wall clock per second.
TicksPerSecond == 4
\* Latest moment of a run, in ticks after the first second, and the most
\* requests one instance sends.
MaxClock == 12
MaxRequests == 3

\* NOMINATIM_RATE_LIMIT = 1.0 seconds, in ticks
NOMINATIM_RATE_LIMIT == 1 * TicksPerSecond

\* Sleeping the time already elapsed instead of the time remaining.
SleepForElapsed(current_time, last) ==
    IF current_time - last < NOMINATIM_RATE_LIMIT THEN current_time - last ELSE 0

\* _rate_limit: how long the call sleeps, from the clock it read on entry
\* and last_request_time.
SleepFor(current_time, last) ==
    IF current_time - last < NOMINATIM_RATE_LIMIT
    THEN NOMINATIM_RATE_LIMIT - (current_time - last) ELSE 0

\* The instance as constructed, last_request_time = 0; time.time() counts
\* from 1970, so the clock is at least one interval past zero.
InitNominatim ==
    /\ clock = NOMINATIM_RATE_LIMIT
    /\ IdleTide /\ IdleFormat /\ IdleEscape /\ IdleClients
    /\ last_request_time = 0
    /\ sent = <<>>

\* One call of search or reverse: _rate_limit reads the clock, sleeps at
\* least the time it asked for (over ticks longer), records the clock read
\* after the sleep, and the request is sent and answered took ticks later.
RateLimitedRequest(op, over, took) ==
    LET current_time == clock
        sleep == SleepFor(current_time, last_request_time)
        recorded == current_time + sleep + over
    IN  /\ recorded + took <= NOMINATIM_RATE_LIMIT + MaxClock
        /\ last_request_time' = recorded
        /\ sent' = Append(sent, [op |-> op, arrived |-> current_time, slept |-> sleep, at |-> recorded])
        /\ clock' = recorded + took

\* ------------------------------------------- what a client call returns
\* What happens to a client's HTTP request: it is answered with a body,
\* requests raises a RequestException, the body of the answer is no JSON,
\* or something else is raised.
HttpAnswered(body) == [kind |-> "ok", body |-> body]
HttpRequestException(what) == [kind |-> "request_exception", what |-> what]
HttpUndecodable == [kind |-> "undecodable"]

\* str(e)
ExceptionText(what) == [t |-> "str", exception |-> what]

\* The mapping of an exception handler: error, api, timestamp.
ErrorResultStamped(message, api, now) ==
    Dict(<< <<"error", message>>, <<"api", Str(api)>>, <<"_metadata", Dict(<< <<"fetched_at", IsoFormat(now)>> >>)>> >>)

ErrorResult(message, api, now) ==
    Dict(<< <<"error", message>>, <<"api", Str(api)>>, <<"timestamp", IsoFormat(now)>> >>)

\* What a client with the single handler `except RequestException` gives
\* back: the mapping built from the answer, the handler's mapping, or
\* Raised when the exception leaves the call.  response.json() on a body
\* that is no JSON raises a RequestException subclass or a plain ValueError,
\* depending on the installed requests.
ClientResults(outcome, built, api, now) ==
    CASE outcome.kind = "ok" -> { built }
      [] outcome.kind = "request_exception" -> { ErrorResult(ExceptionText(outcome.what), api, now) }
      [] outcome.kind = "undecodable" -> { ErrorResult(ExceptionText("JSONDecodeError"), api, now), Raised }
      [] OTHER -> { Raised }

\* len(v) is defined on mappings, lists and strings.
HasLen(v) == v.t \in {"dict", "list", "str"}

\* NominatimAPI.search after _rate_limit: the mapping around the decoded
\* results.
NominatimAPI_search(query, outcome, now) ==
    ClientResults(outcome,
                  IF outcome.kind = "ok" /\ HasLen(outcome.body)
                  THEN Dict(<< <<"query", query>>, <<"results", outcome.body>>,
                               <<"_metadata", Dict(<< <<"fetched_at", IsoFormat(now)>>,
                                                      <<"api", Str("Nominatim Geocoding")>>,
                                                      <<"result_count", Num(IF outcome.body.t = "str" THEN 1 ELSE Len(outcome.body.items))>> >>)>> >>)
                  ELSE Raised,
                  "Nominatim Geocoding", now)

\* NominatimAPI.reverse after _rate_limit.
NominatimAPI_reverse(lat, lon, outcome, now) ==
    ClientResults(outcome,
                  IF outcome.kind = "ok"
                  THEN Dict(<< <<"coordinates", Dict(<< <<"lat", Num(lat)>>, <<"lon", Num(lon)>> >>)>>,
                               <<"result", outcome.body>>,
                               <<"_metadata", Dict(<< <<"fetched_at", IsoFormat(now)>>,
                                                      <<"api", Str("Nominatim Reverse Geocoding")>> >>)>> >>)
                  ELSE Raised,
                  "Nominatim Reverse Geocoding", now)

\* One call of a client: the arguments, what happened to the request, the
\* request sent and the mapping returned.
ClientCall(client, args, outcome, request, result) ==
    [kind |-> "call", client |-> client, args |-> args, outcome |-> outcome, request |-> request, result |-> result]

\* The answers of the geocoder: a list of places, one place, a body that
\* is no JSON, no answer.
Place == Dict(<< <<"display_name", Str("Bergen")>> >>)
NominatimOutcomes ==
    { HttpAnswered(List(<<Place, Place>>)), HttpAnswered(Place),
      HttpRequestException("Timeout"), HttpUndecodable }

\* The calls fetch_all makes.
SearchArgs == [query |-> Str("Bergen, Norway"), limit |-> 3]
ReverseArgs == [lat |-> 6000, lon |-> 500]

\* NominatimAPI.search
Search ==
    /\ Len(sent) < MaxRequests
    /\ \E over \in 0..1, took \in 0..1, outcome \in NominatimOutcomes :
        /\ RateLimitedRequest("search", over, took)
        /\ \E result \in NominatimAPI_search(SearchArgs.query, outcome, clock') :
              fetch_call' = ClientCall("NominatimAPI.search", SearchArgs, outcome, [q |-> SearchArgs.query], result)
    /\ UNCHANGED <<tide_vars, format_vars, escape_vars, parse_vars, collector_vars, threads>>

\* NominatimAPI.reverse
Reverse ==
    /\ Len(sent) < MaxRequests
    /\ \E over \in 0..1, took \in 0..1, outcome \in NominatimOutcomes :
        /\ RateLimitedRequest("reverse", over, took)
        /\ \E result \in NominatimAPI_reverse(ReverseArgs.lat, ReverseArgs.lon, outcome, clock') :
              fetch_call' = ClientCall("NominatimAPI.reverse", ReverseArgs, outcome, ReverseArgs, result)
    /\ UNCHANGED <<tide_vars, format_vars, escape_vars, parse_vars, collector_vars, threads>>

\* Time passes between two calls.
Elapse ==
    /\ clock < NOMINATIM_RATE_LIMIT + MaxClock
    /\ clock' = clock + 1
    /\ UNCHANGED <<tide_vars, format_vars, nominatim_vars, escape_vars, parse_vars, fetch_call, collector_vars, threads>>

NextNominatim == Search \/ Reverse \/ Elapse

SpecNominatim == InitNominatim /\ [][NextNominatim]_vars

\* last_request_time as request i found it.
LastBefore(i) == IF i = 1 THEN 0 ELSE sent[i - 1].at

\* C18: two consecutive requests of one instance are spaced by at least
\* NOMINATIM_RATE_LIMIT: a call arriving sooner than the interval after the
\* previous one sleeps the remaining difference before it records its own
\* time and sends, and a call arriving later, or the first call, does not
\* sleep.
C18_RequestsSpaced ==
    /\ \A i \in 2..Len(sent) : sent[i].at - sent[i - 1].at >= NOMINATIM_RATE_LIMIT
    /\ \A i \in 1..Len(sent) :
        /\ (sent[i].arrived - LastBefore(i) < NOMINATIM_RATE_LIMIT)
             => sent[i].slept = NOMINATIM_RATE_LIMIT - (sent[i].arrived - LastBefore(i))
        /\ (sent[i].arrived - LastBefore(i) >= NOMINATIM_RATE_LIMIT) => sent[i].slept = 0
        /\ sent[i].at >= sent[i].arrived + sent[i].slept
    /\ Len(sent) > 0 => (sent[1].slept = 0 /\ last_request_time = sent[Len(sent)].at)

\* A run of C18's case: a first call that does not sleep, a reverse that
\* arrives one tick after it and sleeps the rest of the interval, and a
\* third call that arrives late and does not sleep.
C18_Witness ==
    /\ Len(sent) = 3
    /\ sent[1].slept = 0
    /\ sent[1].op = "search" /\ sent[2].op = "reverse"
    /\ sent[2].arrived = sent[1].at + 1
    /\ sent[2].slept = NOMINATIM_RATE_LIMIT - 1
    /\ sent[2].at - sent[1].at = NOMINATIM_RATE_LIMIT
    /\ sent[3].arrived - sent[2].at > NOMINATIM_RATE_LIMIT
    /\ sent[3].slept = 0

\* =====================================================================
\* The formatters' effects on their argument and on the filesystem
\* =====================================================================
\* C19: no format function mutates the response it is given: after any
\* call of HTMLFormatter.format, TextFormatter.format, YAMLFormatter.format
\* or ExcelFormatter.format the response and all its nested values are
\* equal to what they were before the call.
C19_ResponseNotMutated == [][response' = response]_vars

\* A run of C19's case: the Excel call has read every entry of a series
\* with details and summary fields, saved the workbook, and the response
\* still is one of the drawn responses.
C19_Witness ==
    /\ TabularWithRows
    /\ files # NoFiles
    /\ the_title = DefaultTitle
    /\ response \in Responses
    /\ Len(ResponseSeries(response)) = 2
    /\ Len(TableHeaders) = 6
    /\ HasUnits(response) /\ Has(response, "_metadata") /\ Has(response, "error")

\* A workbook left by an earlier run.
OldWorkbook == <<Sheet("Response Data", (<<1, 1>> :> Str("old")))>>

\* The output directory before the calls: empty, or holding earlier files,
\* one of them at the path the next Excel call is given.
OldFiles == [f \in {"output/old.xlsx"} \cup Filenames |-> OldWorkbook]

\* _metadata: as before, and as KartverketTideAPI.fetch builds it, with a
\* nested coordinates mapping.
RenderMetadata ==
    MetadataVariants
    \cup { Dict(<< <<"fetched_at", IsoFormat(1)>>,
                   <<"coordinates", Dict(<< <<"lat", Num(6039)>>, <<"lon", Num(532)>> >>)>>,
                   <<"station", Str("auto")>>,
                   <<"api", Str("Kartverket Tide API")>> >>) }

\* The responses of the runs that watch the filesystem: error, generic
\* and timeseries-shaped ones.
RenderResponses ==
    { ResponseOf(g, p, md, e) :
        g \in GeometryVariants, md \in RenderMetadata, e \in ErrorVariants,
        p \in { NoneV } \cup { PropertiesOf(mt, List(s)) : mt \in MetaVariants, s \in SeriesOfLen(1) } }

InitRender ==
    /\ clock \in 0..1
    /\ IdleTide /\ IdleNominatim /\ IdleEscape /\ IdleClients
    /\ the_title = DefaultTitle
    /\ response \in RenderResponses
    /\ out = NoOutput
    /\ files \in { NoFiles, OldFiles }

SpecRender == InitRender /\ [][NextFormat]_vars

MetadataRows(sheet) ==
    LET n == CHOOSE k \in 0..Cardinality(DOMAIN sheet.cells) :
                 /\ \A j \in 1..k : <<3 + j, 1>> \in DOMAIN sheet.cells
                 /\ <<3 + k + 1, 1>> \notin DOMAIN sheet.cells
    IN  [j \in 1..n |-> <<sheet.cells[<<3 + j, 1>>].s, sheet.cells[<<3 + j, 2>>]>>]

\* A metadata block is part of the output.
MetadataRendered(o) ==
    CASE o.fmt = "html" -> HtmlBlocks(o.doc, "metadata") # {}
      [] o.fmt = "text" -> \E i \in 1..Len(o.lines) : o.lines[i] = Line("METADATA")
      [] o.fmt = "excel" -> o.mode = "generic" /\ o.wb[1].cells[<<3, 1>>] = Str("Metadata")
      [] OTHER -> FALSE

\* The <<key, display string>> pairs of the block, top to bottom.
MetadataShown(o) ==
    CASE o.fmt = "html" ->
           LET b == o.doc[CHOOSE i \in HtmlBlocks(o.doc, "metadata") : TRUE].pairs
           IN  [j \in 1..Len(b) |-> <<b[j].key, b[j].value>>]
      [] o.fmt = "text" ->
           LET b == SelectSeq(o.lines, LAMBDA l : l.kind = "pair")
           IN  [j \in 1..Len(b) |-> <<b[j].key, b[j].value>>]
      [] o.fmt = "excel" -> MetadataRows(o.wb[1])

\* C21: whenever a formatter renders the metadata block of a response, it
\* renders one key/value pair per key of the metadata mapping, in the
\* mapping's insertion order, none omitted or repeated, each value coerced
\* to its display string (a nested mapping value is one string).
C21_MetadataPairsInOrder ==
    (out.fmt # "none" /\ MetadataRendered(out)) =>
        /\ Has(response, "_metadata")
        /\ LET items == Item(response, "_metadata").items
               shown == MetadataShown(out)
           IN  /\ Len(shown) = Len(items)
               /\ \A i \in 1..Len(items) :
                    /\ shown[i][1] = items[i][1]
                    /\ shown[i][2].t = "str"
                    /\ shown[i][2] = (IF items[i][2].t = "str" THEN items[i][2]
                                      ELSE [t |-> "str", of |-> items[i][2]])

\* A run of C21's case: the HTML block of a metadata mapping whose second
\* value is a nested mapping, shown as one string in second place.
C21_Witness ==
    /\ out.fmt = "html"
    /\ MetadataRendered(out)
    /\ Len(MetadataShown(out)) = 4
    /\ MetadataShown(out)[2][1] = "coordinates"
    /\ MetadataShown(out)[2][2] = [t |-> "str", of |-> Dict(<< <<"lat", Num(6039)>>, <<"lon", Num(532)>> >>)]
    /\ MetadataShown(out)[4][1] = "api"

\* ------------------------------------------------- _parse_tab_format
\* A text is a sequence of tokens: a token is one whitespace character
\* (" ", "\t", "\n") or one word without whitespace.
MaxLines == 2

Whitespace == { " ", "\t", "\n" }

Text(tokens) == [t |-> "str", tokens |-> tokens]

\* str.lstrip(), str.rstrip(), str.strip()
RECURSIVE LStrip(_)
LStrip(s) == IF s # <<>> /\ Head(s) \in Whitespace THEN LStrip(Tail(s)) ELSE s

RECURSIVE RStrip(_)
RStrip(s) == IF s # <<>> /\ s[Len(s)] \in Whitespace THEN RStrip(SubSeq(s, 1, Len(s) - 1)) ELSE s

Strip(s) == RStrip(LStrip(s))

\* str.split(sep): the pieces between the occurrences of sep.
RECURSIVE Split(_, _)
Split(s, sep) ==
    IF \A i \in DOMAIN s : s[i] # sep THEN <<s>>
    ELSE LET k == CHOOSE i \in DOMAIN s : s[i] = sep /\ \A j \in 1..(i - 1) : s[j] # sep
         IN  <<SubSeq(s, 1, k - 1)>> \o Split(SubSeq(s, k + 1, Len(s)), sep)

\* line.startswith(word), 'Location:' in line
StartsWithWord(line, word) == line # <<>> /\ Head(line) = word
Contains(line, word) == \E i \in DOMAIN line : line[i] = word

\* The words float() accepts, with their values in tenths.
FloatValue == [w \in {"12.3", "7", "-4.5"} |-> CASE w = "12.3" -> 123 [] w = "7" -> 70 [] w = "-4.5" -> -45]

\* float(field.strip()) returns; otherwise it raises ValueError.
IsFloat(field) == Len(Strip(field)) = 1 /\ Strip(field)[1] \in DOMAIN FloatValue
Float(field) == FloatValue[Strip(field)[1]]

\* The entry appended for one data line.
TideEntry(time_str, value) ==
    Dict(<< <<"time", Text(time_str)>>,
            <<"data", Dict(<< <<"instant", Dict(<< <<"details", Dict(<<
                <<"sea_surface_height_above_chart_datum", Num(value)>> >>)>> >>)>> >>)>> >>)

\* The loop over lines: a comment, header or blank line may name the
\* station and is skipped; a line with two fields whose second is a float
\* appends an entry; any other line is skipped.
RECURSIVE ParseLines(_, _, _)
ParseLines(lines, station_name, timeseries) ==
    IF lines = <<>> THEN [station_name |-> station_name, timeseries |-> timeseries]
    ELSE LET line == Head(lines)
             parts == Split(line, "\t")
             named == Split(line, "Location:")
         IN  IF StartsWithWord(line, "#") \/ StartsWithWord(line, "time") \/ Strip(line) = <<>>
             THEN ParseLines(Tail(lines),
                             IF Contains(line, "Location:") /\ Len(named) > 1
                             THEN Text(Strip(named[2])) ELSE station_name,
                             timeseries)
             ELSE IF Len(parts) >= 2 /\ IsFloat(parts[2])
             THEN ParseLines(Tail(lines), station_name,
                             Append(timeseries, TideEntry(Strip(parts[1]), Float(parts[2]))))
             ELSE ParseLines(Tail(lines), station_name, timeseries)

\* _parse_tab_format(raw_text, lat, lon, location_info); now is the reading
\* of datetime.now().
parse_tab_format(text, lat, lon, location_info, now) ==
    LET lines == Split(Strip(text), "\n")
        read == ParseLines(lines, Str("Unknown"), <<>>)
    IN  Dict(<<
          <<"type", Str("Feature")>>,
          <<"geometry", Dict(<< <<"type", Str("Point")>>,
                                <<"coordinates", List(<<Num(lon), Num(lat)>>)>> >>)>>,
          <<"properties", Dict(<<
              <<"meta", Dict(<<
                  <<"updated_at", IsoFormat(now)>>,
                  <<"station_name", read.station_name>>,
                  <<"station_code", Str("N/A")>>,
                  <<"units", Dict(<< <<"sea_surface_height_above_chart_datum", Str("cm")>> >>)>> >>)>>,
              <<"timeseries", List(read.timeseries)>> >>)>> >>)

\* Lines of an answer: blank, comment, station comment, header, data
\* lines, and data lines with missing, extra, padded or non-numeric fields.
TextLines ==
    { <<>>, <<" ">>,
      <<"#", " ", "x">>,
      <<"#", " ", "Location:", " ", "Bergen">>,
      <<"time", "\t", "value">>,
      <<"T1", "\t", "12.3">>,
      <<"T2", "\t", "7">>,
      <<"T1", "\t", "12.3", "\t", "x">>,
      <<"T1", "\t", "x">>,
      <<"T1">>,
      <<"T1", "\t">>,
      <<"T1", "\t", "12.3", "\t">>,
      <<" ", "T1", " ", "\t", " ", "-4.5", " ">>,
      <<"\t", "12.3", "\t", "7">>,
      <<" ", "#", "\t", "7">> }

\* '\n'.join(lines)
RECURSIVE JoinLines(_)
JoinLines(lines) ==
    IF lines = <<>> THEN <<>>
    ELSE IF Len(lines) = 1 THEN lines[1]
    ELSE lines[1] \o <<"\n">> \o JoinLines(Tail(lines))

RawTexts == { JoinLines(ls) : ls \in UNION { [1..n -> TextLines] : n \in 1..MaxLines } }

\* The position the parser is called with.
ParseLat == 6039
ParseLon == 532

InitParse ==
    /\ clock = 0
    /\ IdleTide /\ IdleFormat /\ IdleNominatim /\ IdleEscape
    /\ IdleFetch /\ IdleCollector /\ IdleThreads
    /\ raw_text \in RawTexts
    /\ parsed = NoCall

\* One call of _parse_tab_format on the drawn text.
ParseTabFormat ==
    /\ parsed = NoCall
    /\ parsed' = parse_tab_format(raw_text, ParseLat, ParseLon, LocationInfo(ParseLat, ParseLon), clock)
    /\ UNCHANGED <<clock, tide_vars, format_vars, nominatim_vars, escape_vars, raw_text, fetch_call, collector_vars, threads>>

NextParse == ParseTabFormat

SpecParse == InitParse /\ [][NextParse]_vars

\* The entries the parser returned.
ParsedSeries == Get(Get(parsed, "properties", EmptyDict), "timeseries", List(<<>>)).items

\* An input line that is not blank, does not start with # or time, has at
\* least two tab-separated fields and whose second field is a number.
IsDataLine(line) ==
    /\ Strip(line) # <<>>
    /\ ~StartsWithWord(line, "#")
    /\ ~StartsWithWord(line, "time")
    /\ Len(Split(line, "\t")) >= 2
    /\ IsFloat(Split(line, "\t")[2])

DataLines(text) == SelectSeq(Split(text, "\n"), IsDataLine)

\* C28 as claimed: _parse_tab_format emits exactly one entry per input line
\* that is not blank, does not start with # or time, has at least two
\* tab-separated fields and a numeric second field; the entries keep the
\* order of the lines, each carrying the line's first field as time and the
\* number as the height.
C28_OneEntryPerDataLine ==
    parsed # NoCall =>
        /\ Len(ParsedSeries) = Len(DataLines(raw_text))
        /\ \A i \in 1..Len(ParsedSeries) :
              i <= Len(DataLines(raw_text)) =>
                  LET fields == Split(DataLines(raw_text)[i], "\t")
                  IN  ParsedSeries[i] = TideEntry(Strip(fields[1]), Float(fields[2]))

\* ------------------------------------------- KartverketTideAPI.fetch
\* Largest days_ahead of the fetch calls.
MaxDaysAhead == 1

\* d[key] = value: replaces the value of a key present, appends otherwise.
SetItem(d, key, value) ==
    IF Has(d, key)
    THEN Dict([i \in 1..Len(d.items) |-> IF d.items[i][1] = key THEN <<key, value>> ELSE d.items[i]])
    ELSE Dict(Append(d.items, <<key, value>>))

\* Bodies of the tide service's answers.
LiveTexts ==
    { JoinLines(<< <<"#", " ", "Location:", " ", "Bergen">>, <<"time", "\t", "value">>, <<"T1", "\t", "12.3">>, <<"T2", "\t", "7">> >>),
      JoinLines(<< <<"time", "\t", "value">> >>),
      JoinLines(<< <<"T1", "\t", "x">>, <<"T2", "\t", "-4.5">> >>),
      <<>> }

\* What happens inside the try block of fetch: an answer, a
\* RequestException of requests.get or raise_for_status, another exception.
TideOutcomes ==
    { HttpAnswered(b) : b \in LiveTexts }
    \cup { HttpRequestException(w) : w \in {"ConnectionError", "Timeout", "HTTPError"} }
    \cup { [kind |-> "exception", what |-> "ValueError"] }

\* The request sent: the params that locate the prediction.
TideRequest(lat, lon) == [lat |-> lat, lon |-> lon, place |-> ""]

\* The _metadata of a live answer.
TideMetadata(lat, lon, station, days_ahead, location_info, now) ==
    Dict(<< <<"fetched_at", IsoFormat(now)>>,
            <<"location", location_info>>,
            <<"coordinates", Dict(<< <<"lat", Num(lat)>>, <<"lon", Num(lon)>> >>)>>,
            <<"station", IF Truthy(station) THEN station ELSE Str("auto")>>,
            <<"api", Str("Kartverket Tide API")>>,
            <<"forecast_period_days", Num(days_ahead)>> >>)

\* f'Error parsing tide data: {str(e)}'
ErrorParsing(what) == [t |-> "str", error_parsing |-> what]

\* A fetch whose two handlers both fall back to the generated sample data.
KartverketTideAPI_fetch_always_sample(lat, lon, station, days_ahead, from_time, outcome, now1, now2) ==
    IF outcome.kind = "ok"
    THEN SetItem(parse_tab_format(outcome.body, lat, lon, LocationInfo(lat, lon), now1), "_metadata",
                 TideMetadata(lat, lon, station, days_ahead, LocationInfo(lat, lon), now2))
    ELSE generate_sample_tide_data(lat, lon, LocationInfo(lat, lon), from_time,
                                   AddIntervals(from_time, 24 * days_ahead), days_ahead, now1, now2)

\* KartverketTideAPI.fetch(lat, lon, station, days_ahead): from_time is the
\* reading of datetime.now() at entry, now1 and now2 the two later readings.
KartverketTideAPI_fetch(lat, lon, station, days_ahead, from_time, outcome, now1, now2) ==
    LET to_time == AddIntervals(from_time, 24 * days_ahead)
        location_info == LocationInfo(lat, lon)
    IN  CASE outcome.kind = "ok" ->
               SetItem(parse_tab_format(outcome.body, lat, lon, location_info, now1), "_metadata",
                       TideMetadata(lat, lon, station, days_ahead, location_info, now2))
          [] outcome.kind = "request_exception" ->
               generate_sample_tide_data(lat, lon, location_info, from_time, to_time, days_ahead, now1, now2)
          [] OTHER -> ErrorResult(ErrorParsing(outcome.what), "Kartverket Tide API", now1)

\* The arguments of the calls: the defaults, another position, a named
\* station with and without a position.
StationArgs == { NoneV, Str("bergen"), Str("oslo") }
FetchArgs ==
    { [lat |-> p[1], lon |-> p[2], station |-> st, days_ahead |-> d] :
        p \in { <<6039, 532>>, <<5897, 573>> }, st \in StationArgs, d \in 0..MaxDaysAhead }

InitFetch ==
    /\ clock = 0
    /\ IdleTide /\ IdleFormat /\ IdleNominatim /\ IdleEscape
    /\ IdleParse /\ IdleFetch /\ IdleCollector /\ IdleThreads

\* The first call of fetch on a fresh KartverketTideAPI.
KartverketFetch ==
    /\ fetch_call = NoCall
    /\ \E a \in FetchArgs, from_time \in FromTimes, outcome \in TideOutcomes, d \in 0..1 :
        /\ fetch_call' = ClientCall("KartverketTideAPI.fetch", a, outcome, TideRequest(a.lat, a.lon),
                                    KartverketTideAPI_fetch(a.lat, a.lon, a.station, a.days_ahead, from_time, outcome, clock, clock + d))
        /\ clock' = clock + d
    /\ UNCHANGED <<tide_vars, format_vars, nominatim_vars, escape_vars, parse_vars, collector_vars, threads>>

NextFetch == KartverketFetch

SpecFetch == InitFetch /\ [][NextFetch]_vars

\* The result of the latest call and parts of it.
Result == fetch_call.result
ResultMetadata == Get(Result, "_metadata", EmptyDict)
ResultSeries == Get(Get(Result, "properties", EmptyDict), "timeseries", NoneV)
IsTideCall == fetch_call # NoCall /\ fetch_call.client = "KartverketTideAPI.fetch"
IsSample == Get(ResultMetadata, "station", NoneV) = Str("sample")

\* C22: fetch returns the generated sample data (station sample) exactly
\* when the request raised a RequestException; a request that succeeds
\* returns the parsed live data, and any other exception returns an error
\* mapping without timeseries.
C22_SampleOnlyOnRequestException ==
    IsTideCall =>
        /\ IsSample <=> fetch_call.outcome.kind = "request_exception"
        /\ fetch_call.outcome.kind = "ok" =>
              LET a == fetch_call.args
                  live == parse_tab_format(fetch_call.outcome.body, a.lat, a.lon, LocationInfo(a.lat, a.lon), 0)
              IN  /\ ResultSeries = Item(Item(live, "properties"), "timeseries")
                  /\ Get(Item(Item(Result, "properties"), "meta"), "station_name", NoneV) = Item(Item(Item(live, "properties"), "meta"), "station_name")
                  /\ ~Has(Result, "error")
        /\ fetch_call.outcome.kind = "exception" =>
              /\ Has(Result, "error")
              /\ ~Has(Result, "properties")
              /\ ~Has(Result, "_metadata")

C22_Witness ==
    /\ IsTideCall
    /\ fetch_call.outcome.kind = "request_exception"
    /\ fetch_call.outcome.what = "Timeout"
    /\ IsSample
    /\ Len(ResultSeries.items) = 25

\* The positions of the named stations.
StationPosition == [st \in {"bergen", "oslo"} |-> IF st = "bergen" THEN <<6039, 532>> ELSE <<5991, 1075>>]

\* C23 as claimed: a named station overrides lat/lon; the position queried
\* in the request and reported in the result is the station's, not the
\* lat/lon arguments or their defaults.
C23_StationOverridesPosition ==
    (IsTideCall /\ fetch_call.args.station # NoneV) =>
        LET pos == StationPosition[fetch_call.args.station.s]
        IN  /\ <<fetch_call.request.lat, fetch_call.request.lon>> = pos
            /\ Has(Result, "_metadata") =>
                  Item(ResultMetadata, "coordinates") = Dict(<< <<"lat", Num(pos[1])>>, <<"lon", Num(pos[2])>> >>)

\* ------------------------------------------- the width of the text output
\* Longest title handed to the text formatter.
MaxTitleLen == 82

\* 'x' * n
RECURSIVE Repeat(_, _)
Repeat(ch, n) == IF n = 0 THEN "" ELSE ch \o Repeat(ch, n - 1)

Titles == { Str(Repeat("x", n)) : n \in 0..MaxTitleLen } \cup { DefaultTitle }

\* Responses with and without the metadata and the error section.
TextResponses ==
    { ResponseOf(NoneV, NoneV, md, e) : md \in RenderMetadata, e \in ErrorVariants }

InitText ==
    /\ clock = 0
    /\ IdleTide /\ IdleNominatim /\ IdleEscape /\ IdleClients
    /\ the_title \in Titles
    /\ response \in TextResponses
    /\ out = NoOutput
    /\ files = NoFiles

NextText == FormatText

SpecText == InitText /\ [][NextText]_vars

\* The positions of the rules of a text output.
RulesAt(o) == { i \in 1..Len(o.lines) : o.lines[i].kind = "rule" }

\* C24: the text output starts with a rule of 80 '=', the title centered
\* in a field of width 80 and another rule of 80 '='; every section rule
\* is 80 '-' and the output ends with a rule of 80 '='.  For every title
\* of at most 80 characters the title line is exactly 80 characters wide.
C24_EightyColumns ==
    out.fmt = "text" =>
        LET n == Len(out.lines) IN
        /\ out.lines[1] = [kind |-> "rule", ch |-> "=", width |-> 80]
        /\ out.lines[2].kind = "centered" /\ out.lines[2].text = the_title
        /\ out.lines[3] = [kind |-> "rule", ch |-> "=", width |-> 80]
        /\ out.lines[n] = [kind |-> "rule", ch |-> "=", width |-> 80]
        /\ \A i \in RulesAt(out) \ {1, 3, n} : out.lines[i] = [kind |-> "rule", ch |-> "-", width |-> 80]
        /\ \A i \in 2..n : out.lines[i - 1].kind = "line" /\ out.lines[i - 1].text \in {"METADATA", "ERROR", "FULL RESPONSE DATA"} => i \in RulesAt(out)
        /\ StrLen(the_title) <= 80 =>
              /\ out.lines[2].width = 80
              /\ out.lines[2].left + StrLen(the_title) + out.lines[2].right = 80
              /\ out.lines[2].left - out.lines[2].right \in {0, -1}

C24_Witness ==
    /\ out.fmt = "text"
    /\ StrLen(the_title) = 79
    /\ out.lines[2].left = 0 /\ out.lines[2].right = 1
    /\ Has(response, "_metadata") /\ Has(response, "error")
    /\ Cardinality(RulesAt(out)) = 7

\* ------------------------------------------- LocationforecastAPI.fetch
\* A MET client's fetch: data['_metadata'] = {...} on the decoded body,
\* which raises TypeError on a body that is no mapping.
MetFetch(api, metadata, outcome) ==
    ClientResults(outcome,
                  IF outcome.kind = "ok" /\ IsDict(outcome.body)
                  THEN SetItem(outcome.body, "_metadata", metadata) ELSE Raised,
                  api, Item(metadata, "fetched_at").iso)

LocationforecastAPI_fetch(lat, lon, altitude, outcome, now) ==
    MetFetch("Locationforecast 2.0",
             Dict(<< <<"fetched_at", IsoFormat(now)>>,
                     <<"coordinates", Dict(<< <<"lat", Num(lat)>>, <<"lon", Num(lon)>>, <<"altitude", altitude>> >>)>>,
                     <<"api", Str("Locationforecast 2.0")>> >>),
             outcome)

OceanforecastAPI_fetch(lat, lon, outcome, now) ==
    MetFetch("Oceanforecast 2.0",
             Dict(<< <<"fetched_at", IsoFormat(now)>>,
                     <<"coordinates", Dict(<< <<"lat", Num(lat)>>, <<"lon", Num(lon)>> >>)>>,
                     <<"api", Str("Oceanforecast 2.0")>> >>),
             outcome)

NowcastAPI_fetch(lat, lon, outcome, now) ==
    MetFetch("Nowcast 2.0",
             Dict(<< <<"fetched_at", IsoFormat(now)>>,
                     <<"coordinates", Dict(<< <<"lat", Num(lat)>>, <<"lon", Num(lon)>> >>)>>,
                     <<"api", Str("Nowcast 2.0")>> >>),
             outcome)

\* TextforecastAPI.fetch: a body that is no JSON is kept as {'text': ...}.
TextforecastAPI_fetch(language, outcome, now) ==
    MetFetch("Textforecast 2.0",
             Dict(<< <<"fetched_at", IsoFormat(now)>>, <<"language", Str(language)>>,
                     <<"api", Str("Textforecast 2.0")>> >>),
             IF outcome.kind = "undecodable"
             THEN HttpAnswered(Dict(<< <<"text", Str("response.text")>> >>)) ELSE outcome)

\* Answers of the forecast service: a forecast, a mapping that carries its
\* own error and _metadata keys, a list, a body that is no JSON, an error
\* status, and an exception that is no RequestException.
ForecastOutcomes ==
    { HttpAnswered(ResponseOf(g, PropertiesOf(mt, List(sr)), NoneV, NoneV)) :
        g \in GeometryVariants, mt \in MetaVariants, sr \in SeriesOfLen(1) }
    \cup { HttpAnswered(Dict(<< <<"error", Str("not found")>>, <<"_metadata", Str("v2")>> >>)),
           HttpAnswered(List(<<>>)),
           HttpUndecodable,
           HttpRequestException("HTTPError"),
           [kind |-> "exception", what |-> "RuntimeError"] }

\* The first call of fetch on a fresh LocationforecastAPI.
LocationforecastFetch ==
    /\ fetch_call = NoCall
    /\ \E p \in Positions, altitude \in {NoneV, Num(10)}, outcome \in ForecastOutcomes :
        \E result \in LocationforecastAPI_fetch(p[1], p[2], altitude, outcome, clock) :
            fetch_call' = ClientCall("LocationforecastAPI.fetch", [lat |-> p[1], lon |-> p[2], altitude |-> altitude],
                                     outcome, [lat |-> p[1], lon |-> p[2]], result)
    /\ UNCHANGED <<clock, tide_vars, format_vars, nominatim_vars, escape_vars, parse_vars, collector_vars, threads>>

\* The clients as constructed.
InitClients == InitNominatim

NextClients == KartverketFetch \/ LocationforecastFetch \/ Search \/ Reverse

SpecClients == InitClients /\ [][NextClients]_vars

\* The latest call returned a result from one of its exception handlers.
FromHandler == fetch_call.outcome.kind \in {"request_exception", "undecodable", "exception"}

Steps == << "oceanforecast", "locationforecast", "textforecast", "nowcast", "tide",
            "nominatim_search", "nominatim_reverse", "complete", "done" >>

StepIndex(name) == CHOOSE i \in 1..Len(Steps) : Steps[i] = name

\* A run that ends at the first exception of a step.
AfterStepAborting(name, raised) == IF raised THEN "aborted" ELSE Steps[StepIndex(name) + 1]

\* Where fetch_all continues after a step: `except Exception` ends the try
\* block, so an exception of the search skips the reverse lookup, and every
\* other step is followed by the next one whether it raised or not.
AfterStep(name, raised) ==
    IF name = "nominatim_search" /\ raised THEN "complete" ELSE Steps[StepIndex(name) + 1]

\* Stolmen, in hundredths of a degree.
lat_stolmen == 6000
lon_stolmen == 500

\* days_ahead of the tide step (fetch_all asks for 7), within the bound of
\* the fetch calls; the start of its window.
CollectorDaysAhead == MaxDaysAhead
CollectorFromTime == DateTime(2024, 1, 1, 0, 0, 0, 0)

\* save_outputs(data, name, title, include_excel): the JSON file is written
\* first (json_ok: open and json.dump succeed), then the workbook.
save_outputs(fs, data, name, title, include_excel, json_ok) ==
    LET json_path == "json/" \o name \o ".json"
        excel_path == "excel/" \o name \o ".xlsx"
        fs1 == [f \in DOMAIN fs \cup {json_path} |-> IF f = json_path THEN JsonDumps(data) ELSE fs[f]]
        o == ExcelFormatter_format(data, excel_path, title)
    IN  IF ~json_ok THEN [files |-> fs, raised |-> TRUE]
        ELSE IF ~include_excel THEN [files |-> fs1, raised |-> FALSE]
        ELSE IF o.mode = "raised" THEN [files |-> fs1, raised |-> TRUE]
        ELSE [files |-> WorkbookSave(fs1, excel_path, o.wb), raised |-> FALSE]

\* One try block: the fetch returned data or raised, then save_outputs;
\* the step prints its check mark or the error and fetch_all goes on.
Collected(at, data, name, title, include_excel, json_ok) ==
    LET fetched == data # Raised
        saving == save_outputs(files, data, name, title.s, include_excel, json_ok)
        raised == ~fetched \/ saving.raised
    IN  /\ files' = IF fetched THEN saving.files ELSE files
        /\ log' = Append(log, [step |-> at, fetched |-> fetched, saved |-> ~raised,
                               printed |-> IF raised THEN "error" ELSE "collected"])
        /\ step' = AfterStep(at, raised)

\* A forecast, and a body whose timeseries is no list.
Forecast == ResponseOf(NoneV, PropertiesOf(NoneV, List(<<EntryOf(TimeStr(CollectorFromTime), NoneV, NoneV)>>)), NoneV, NoneV)
MalformedForecast == Dict(<< <<"properties", Dict(<< <<"timeseries", Str("x")>> >>)>> >>)

\* What the steps meet: an answer that is saved, one that makes the fetch
\* raise, one that makes the workbook raise, and a failed request.
CollectorOutcomes == { HttpAnswered(Forecast), HttpAnswered(List(<<>>)) }
OceanOutcomes == CollectorOutcomes \cup { HttpAnswered(MalformedForecast) }
CollectorTideOutcomes ==
    { HttpAnswered(JoinLines(<< <<"T1", "\t", "12.3">> >>)), HttpRequestException("ConnectionError"),
      [kind |-> "exception", what |-> "ValueError"] }
CollectorNominatimOutcomes == { HttpAnswered(List(<<Place>>)), HttpUndecodable }

InitCollector ==
    /\ clock = NOMINATIM_RATE_LIMIT
    /\ IdleTide /\ IdleNominatim /\ IdleEscape /\ IdleParse /\ IdleFetch /\ IdleThreads
    /\ the_title = NoResponse /\ response = NoResponse /\ out = NoOutput
    /\ files = NoFiles
    /\ step = "oceanforecast"
    /\ log = <<>>

CollectOceanforecast ==
    /\ step = "oceanforecast"
    /\ \E outcome \in OceanOutcomes, json_ok \in BOOLEAN :
        \E data \in OceanforecastAPI_fetch(lat_stolmen, lon_stolmen, outcome, clock) :
            Collected("oceanforecast", data, "oceanforecast", Str("MET Norway Oceanforecast 2.0"), TRUE, json_ok)
    /\ UNCHANGED <<clock, tide_vars, the_title, response, out, nominatim_vars, escape_vars, parse_vars, fetch_call, threads>>

CollectLocationforecast ==
    /\ step = "locationforecast"
    /\ \E outcome \in CollectorOutcomes, json_ok \in BOOLEAN :
        \E data \in LocationforecastAPI_fetch(lat_stolmen, lon_stolmen, NoneV, outcome, clock) :
            Collected("locationforecast", data, "locationforecast", Str("MET Norway Locationforecast 2.0"), TRUE, json_ok)
    /\ UNCHANGED <<clock, tide_vars, the_title, response, out, nominatim_vars, escape_vars, parse_vars, fetch_call, threads>>

CollectTextforecast ==
    /\ step = "textforecast"
    /\ \E outcome \in CollectorOutcomes, json_ok \in BOOLEAN :
        \E data \in TextforecastAPI_fetch("en", outcome, clock) :
            Collected("textforecast", data, "textforecast", Str("MET Norway Textforecast 2.0"), FALSE, json_ok)
    /\ UNCHANGED <<clock, tide_vars, the_title, response, out, nominatim_vars, escape_vars, parse_vars, fetch_call, threads>>

CollectNowcast ==
    /\ step = "nowcast"
    /\ \E outcome \in CollectorOutcomes, json_ok \in BOOLEAN :
        \E data \in NowcastAPI_fetch(lat_stolmen, lon_stolmen, outcome, clock) :
            Collected("nowcast", data, "nowcast", Str("MET Norway Nowcast 2.0"), TRUE, json_ok)
    /\ UNCHANGED <<clock, tide_vars, the_title, response, out, nominatim_vars, escape_vars, parse_vars, fetch_call, threads>>

CollectTide ==
    /\ step = "tide"
    /\ \E outcome \in CollectorTideOutcomes, json_ok \in BOOLEAN :
        Collected("tide",
                  KartverketTideAPI_fetch(lat_stolmen, lon_stolmen, NoneV, CollectorDaysAhead, CollectorFromTime, outcome, clock, clock),
                  "tide", Str("Kartverket Tide Predictions"), TRUE, json_ok)
    /\ UNCHANGED <<clock, tide_vars, the_title, response, out, nominatim_vars, escape_vars, parse_vars, fetch_call, threads>>

CollectNominatimSearch ==
    /\ step = "nominatim_search"
    /\ \E took \in 0..1, outcome \in CollectorNominatimOutcomes, json_ok \in BOOLEAN :
        /\ RateLimitedRequest("search", 0, took)
        /\ \E data \in NominatimAPI_search(SearchArgs.query, outcome, clock') :
            Collected("nominatim_search", data, "nominatim_search_bergen", Str("Nominatim Search: Bergen"), FALSE, json_ok)
    /\ UNCHANGED <<tide_vars, the_title, response, out, escape_vars, parse_vars, fetch_call, threads>>

CollectNominatimReverse ==
    /\ step = "nominatim_reverse"
    /\ \E over \in 0..1, outcome \in CollectorNominatimOutcomes, json_ok \in BOOLEAN :
        /\ RateLimitedRequest("reverse", over, 0)
        /\ \E data \in NominatimAPI_reverse(lat_stolmen, lon_stolmen, outcome, clock') :
            Collected("nominatim_reverse", data, "nominatim_reverse_bergen", Str("Nominatim Reverse: Bergen"), FALSE, json_ok)
    /\ UNCHANGED <<tide_vars, the_title, response, out, escape_vars, parse_vars, fetch_call, threads>>

\* The closing banner: "Data collection complete!".
Complete ==
    /\ step = "complete"
    /\ log' = Append(log, [step |-> "complete", fetched |-> FALSE, saved |-> FALSE, printed |-> "Data collection complete!"])
    /\ step' = "done"
    /\ UNCHANGED <<clock, tide_vars, format_vars, nominatim_vars, escape_vars, parse_vars, fetch_call, threads>>

NextCollector ==
    \/ CollectOceanforecast \/ CollectLocationforecast \/ CollectTextforecast
    \/ CollectNowcast \/ CollectTide
    \/ CollectNominatimSearch \/ CollectNominatimReverse \/ Complete

\* Every call returns: the requests carry timeouts and the throttle sleeps
\* at most one interval.
SpecCollector == InitCollector /\ [][NextCollector]_vars /\ WF_vars(NextCollector)

\* The steps attempted so far are the first steps of the program order,
\* whatever their outcome, and the reverse lookup was attempted only after
\* a saved search.
StepsInOrder ==
    /\ \A i \in 1..Len(log) : i <= 6 => log[i].step = Steps[i]
    /\ Len(log) <= 5 => step = Steps[Len(log) + 1]
    /\ Len(log) = 6 => step = IF log[6].saved THEN "nominatim_reverse" ELSE "complete"
    /\ \A i \in 1..Len(log) : log[i].step = "nominatim_reverse" => (i = 7 /\ log[6].saved)
    /\ \A i \in 1..Len(log) : log[i].step = "complete" => (i = Len(log) /\ i >= 7 /\ step = "done")

\* C26: fetch_all attempts its steps in the order oceanforecast,
\* locationforecast, textforecast, nowcast, tide, Nominatim; an exception
\* raised in a step while fetching or saving is caught inside the step and
\* never prevents a later step, and the run always reaches its completion
\* message; the reverse lookup runs only after the search result was saved.
C26_StepsInOrderThenComplete ==
    /\ []StepsInOrder
    /\ <>(step = "done" /\ log[Len(log)].printed = "Data collection complete!")

C26_Witness ==
    /\ step = "done"
    /\ Len(log) = 8
    /\ ~log[1].fetched /\ log[1].printed = "error"
    /\ log[2].fetched /\ ~log[2].saved
    /\ log[3].saved /\ ~log[4].saved /\ log[5].saved
    /\ log[6].saved /\ log[7].step = "nominatim_reverse" /\ ~log[7].saved
    /\ "json/tide.json" \in DOMAIN files /\ "excel/tide.xlsx" \in DOMAIN files
    /\ "json/oceanforecast.json" \notin DOMAIN files

\* ------------------------------------------- markup in the HTML document
\* A str value given by its characters.
Chars(cs) == [t |-> "str", chars |-> cs]

\* Titles, metadata and error strings, some with the characters of markup.
HtmlTitles == { DefaultTitle, Chars(<<"<", "b", ">">>), Chars(<<"a", "&", "b">>), Chars(<<"a", "b">>) }
HtmlMetadata ==
    { NoneV,
      Dict(<< <<"fetched_at", IsoFormat(1)>>, <<"api", Str("Test API")>> >>),
      Dict(<< <<"fetched_at", IsoFormat(1)>>, <<"note", Chars(<<"<", "a", ">">>)>> >>) }
HtmlErrors == { NoneV, Str("timeout"), Chars(<<"<", "&", ">">>) }

HtmlResponses ==
    { ResponseOf(g, p, md, e) :
        g \in GeometryVariants, md \in HtmlMetadata, e \in HtmlErrors,
        p \in { NoneV, PropertiesOf(NoneV, List(<<>>)) } }

InitHtml ==
    /\ clock = 0
    /\ IdleTide /\ IdleNominatim /\ IdleEscape /\ IdleClients
    /\ the_title \in HtmlTitles
    /\ response \in HtmlResponses
    /\ out = NoOutput
    /\ files = NoFiles

NextHtml == FormatHTML

SpecHtml == InitHtml /\ [][NextHtml]_vars

\* The text shown is the data with &, < and > replaced by their entities.
ShownEscaped(shown, data) ==
    IF "chars" \in DOMAIN data
    THEN "chars" \in DOMAIN shown /\ shown.chars = Escape(data.chars)
    ELSE shown = data

\* C27 as claimed: data never introduces markup into the HTML document;
\* every <, > and & of the title, of a metadata value and of the error
\* string appears escaped in the output, as in the serialized body.
C27_NoMarkupFromData ==
    out.fmt = "html" =>
        \A i \in 1..Len(out.doc) :
            LET b == out.doc[i] IN
            /\ b.kind \in {"title", "h1"} => ShownEscaped(b.text, the_title)
            /\ b.kind = "error" => ShownEscaped(b.text, StrOf(Item(response, "error")))
            /\ b.kind = "metadata" =>
                  \A j \in 1..Len(b.pairs) :
                      ShownEscaped(b.pairs[j].value, StrOf(Item(response, "_metadata").items[j][2]))

\* ------------------------------------------- the table of an empty series
\* What fetch returns for a live answer without data lines: an empty
\* timeseries, units and _metadata; the same with an error key added.
EmptyTide ==
    KartverketTideAPI_fetch(6039, 532, NoneV, 7, ExampleFrom,
                            HttpAnswered(JoinLines(<< <<"#", " ", "Location:", " ", "Bergen">>, <<"time", "\t", "value">> >>)), 0, 0)

\* Responses whose timeseries is empty or holds one entry.
EmptyTableResponses ==
    { ResponseOf(g, PropertiesOf(mt, List(sr)), md, e) :
        g \in TableGeometry, mt \in TableMeta, md \in RenderMetadata, e \in ErrorVariants,
        sr \in { <<>>, <<EntryOf(TimeStr(ExampleFrom), NoneV, NoneV)>> } }
    \cup { EmptyTide, SetItem(EmptyTide, "error", Str("timeout")) }

InitEmptyTable ==
    /\ clock = 0
    /\ IdleTide /\ IdleNominatim /\ IdleEscape /\ IdleClients
    /\ the_title = DefaultTitle
    /\ response \in EmptyTableResponses
    /\ out = NoOutput
    /\ files \in { NoFiles, OldFiles }

NextEmptyTable == FormatExcel

SpecEmptyTable == InitEmptyTable /\ [][NextEmptyTable]_vars

\* C29: when properties.timeseries is present but empty, ExcelFormatter
\* still takes the tabular path and saves a workbook whose only sheet is
\* 'Timeseries Data' with no cell written: no title, location, updated or
\* header row, no metadata or error section, and no Units sheet even when
\* properties.meta.units is non-empty.
C29_EmptySeriesEmptySheet ==
    (out.fmt = "excel" /\ HasTimeseries(response) /\ ResponseSeries(response) = <<>>) =>
        /\ out.mode = "timeseries"
        /\ Len(out.wb) = 1
        /\ out.wb[1].title = "Timeseries Data"
        /\ DOMAIN out.wb[1].cells = {}
        /\ UnitsSheets = {}
        /\ out.returned \in DOMAIN files /\ files[out.returned] = out.wb

C29_Witness ==
    /\ out.fmt = "excel"
    /\ response = SetItem(EmptyTide, "error", Str("timeout"))
    /\ Truthy(ResponseUnits(response))
    /\ Has(response, "_metadata")
    /\ out.wb = <<Sheet("Timeseries Data", NoCells)>>
    /\ files[out.returned] = out.wb

\* --------------------------- NominatimAPI._rate_limit, two threads
\* Two threads call search or reverse on one NominatimAPI.  A thread runs
\* _rate_limit statement by statement: it reads time.time(), computes
\* time_since_last from self.last_request_time, sleeps if that is under
\* the limit, then stores time.time() in self.last_request_time and its
\* request goes out.  The other thread may run between any two statements.
Threads == 1..2

\* The calls the two threads make in a run, and how long the clock runs.
MaxThreadCalls == 2
MaxThreadClock == 6

\* Thread 1 searches, thread 2 looks up a position.
ThreadOp == <<"search", "reverse">>

Waiting == [pc |-> "idle", op |-> "", current_time |-> 0, wake_at |-> 0]

InitThreads ==
    /\ clock = NOMINATIM_RATE_LIMIT
    /\ IdleTide /\ IdleFormat /\ IdleEscape /\ IdleParse /\ IdleFetch /\ IdleCollector
    /\ last_request_time = 0
    /\ sent = <<>>
    /\ threads = [t \in Threads |-> Waiting]

\* The calls begun so far.
Begun == Len(sent) + Cardinality({ t \in Threads : threads[t].pc # "idle" })

\* A thread enters search or reverse.
ThreadCall ==
    /\ Begun < MaxThreadCalls
    /\ \E t \in Threads :
        /\ threads[t].pc = "idle"
        /\ threads' = [threads EXCEPT ![t] = [Waiting EXCEPT !.pc = "read", !.op = ThreadOp[t]]]
    /\ UNCHANGED <<clock, tide_vars, format_vars, nominatim_vars, escape_vars, parse_vars, fetch_call, collector_vars>>

\* current_time = time.time()
ThreadReadTime ==
    /\ \E t \in Threads :
        /\ threads[t].pc = "read"
        /\ threads' = [threads EXCEPT ![t].pc = "check", ![t].current_time = clock]
    /\ UNCHANGED <<clock, tide_vars, format_vars, nominatim_vars, escape_vars, parse_vars, fetch_call, collector_vars>>

\* time_since_last = current_time - self.last_request_time, and the test
\* that decides on the sleep.
ThreadCheck ==
    /\ \E t \in Threads :
        /\ threads[t].pc = "check"
        /\ threads' = [threads EXCEPT ![t].pc = IF SleepFor(threads[t].current_time, last_request_time) > 0 THEN "sleep" ELSE "record",
                                      ![t].wake_at = clock + SleepFor(threads[t].current_time, last_request_time)]
    /\ UNCHANGED <<clock, tide_vars, format_vars, nominatim_vars, escape_vars, parse_vars, fetch_call, collector_vars>>

\* time.sleep returns once the time asked for has passed.
ThreadWake ==
    /\ \E t \in Threads :
        /\ threads[t].pc = "sleep"
        /\ clock >= threads[t].wake_at
        /\ threads' = [threads EXCEPT ![t].pc = "record"]
    /\ UNCHANGED <<clock, tide_vars, format_vars, nominatim_vars, escape_vars, parse_vars, fetch_call, collector_vars>>

\* self.last_request_time = time.time(); the request goes out.
ThreadRecord ==
    /\ \E t \in Threads :
        /\ threads[t].pc = "record"
        /\ last_request_time' = clock
        /\ sent' = Append(sent, [op |-> threads[t].op, arrived |-> threads[t].current_time,
                                 slept |-> threads[t].wake_at - threads[t].current_time, at |-> clock])
        /\ threads' = [threads EXCEPT ![t] = Waiting]
    /\ UNCHANGED <<clock, tide_vars, format_vars, escape_vars, parse_vars, fetch_call, collector_vars>>

\* Time passes.
ThreadTick ==
    /\ clock < NOMINATIM_RATE_LIMIT + MaxThreadClock
    /\ clock' = clock + 1
    /\ UNCHANGED <<tide_vars, format_vars, nominatim_vars, escape_vars, parse_vars, fetch_call, collector_vars, threads>>

NextThreads == ThreadCall \/ ThreadReadTime \/ ThreadCheck \/ ThreadWake \/ ThreadRecord \/ ThreadTick

SpecThreads == InitThreads /\ [][NextThreads]_vars

\* C30 as claimed: for any interleaving of two threads calling search or
\* reverse on the same instance, their outbound requests start at least
\* NOMINATIM_RATE_LIMIT apart.
C30_SpacedUnderConcurrency ==
    \A i, j \in 1..Len(sent) : i < j => sent[j].at - sent[i].at >= NOMINATIM_RATE_LIMIT

====
